---- MODULE Spec2Model ----
(***************************************************************************)
(* Model of the resume-processing workflow of src/workflow/pipeline.py:    *)
(* the run driver, the tool-invocation helper _call_mcp_tool and the       *)
(* graph of nodes start -> classify_document -> extract_information ->     *)
(* match_roles -> generate_diff -> human_review -> (save_data |            *)
(* end_workflow) -> END.                                                   *)
(*                                                                         *)
(* The class body of ResumeProcessingWorkflow defines start_workflow,      *)
(* classify_document_node and extract_information_node twice; Python keeps *)
(* the later definition (lines 683-767), so those are the ones the graph   *)
(* built in __init__ runs and the ones modelled here.                      *)
(*                                                                         *)
(* The external tools (mcp_client.call_tool) are the environment: every    *)
(* call returns one of a bounded set of responses (a success dictionary, a *)
(* failure dictionary, None, a non-dictionary value) or raises.            *)
(***************************************************************************)
EXTENDS Integers, Sequences, FiniteSets, TLC

VARIABLES
    pc,        \* position of the current run() in the graph
    st,        \* the ResumeProcessingState dictionary threaded through the nodes
    pre,       \* the state dictionary as it was before the last executed step
    trace,     \* per executed node of this run: node name, status and log length after it
    calls,     \* mcp_client.call_tool invocations of this run, in order
    invocations, \* number of _call_mcp_tool invocations of this run
    creates,   \* add_professional_role target calls made since construction
    input,     \* input_data of the current run()
    prev,      \* what the caller kept of the record returned by the previous run()
    nextId,    \* source of fresh uuid4 values
    runs,      \* number of run() invocations so far
    has_sg,    \* whether mcp_config has a "security_gateway" entry
    temp_mcp_client, \* self._temp_mcp_client of the workflow instance (Absent: no such attribute)
    tasks,     \* the run() invocations in progress at once on one workflow instance
    request_count, \* the security gateway's request_count global
    forwarded, \* the calls the security gateway has passed on to their target, in order
    answers,   \* how many requests the gateway forwarded, refused as invalid, refused for the rate
    role1,     \* first argument of _calculate_role_match_score
    role2,     \* its second argument
    total_score, \* the score it returned (NoScore before the call)
    find_extracted_roles, \* argument extracted_roles of find_role_matches
    find_existing_roles,  \* its argument existing_roles
    find_result, \* the dictionary it returned (NoResult before the call)
    parsed_llm_output, \* what process_resume parses from the text the language model answered
    latest_workflow_run, \* st.session_state.latest_workflow_run of the review tab
    ui,        \* what the last rendering of the review tab showed and did
    rp_state,  \* the state dictionary of the nine-step workflow of resume_pipeline.py
    rp_pc      \* the step of that workflow to run next

\* the state of the workflow instance, of concurrent invocations, of the
\* security gateway process and of the record store's match scoring
wfvars == <<pc, st, pre, trace, calls, invocations, creates, input, prev, nextId, runs, has_sg>>
gwvars == <<request_count, forwarded, answers>>
fmvars == <<find_extracted_roles, find_existing_roles, find_result>>
fnvars == <<role1, role2, total_score, fmvars>>
dpvars == <<parsed_llm_output>>
uivars == <<latest_workflow_run, ui>>
rpvars == <<rp_state, rp_pc>>
othervars == <<dpvars, uivars, rpvars>>
vars == <<wfvars, temp_mcp_client, tasks, gwvars, fnvars, othervars>>

----------------------------------------------------------------------------
(* Bounds *)

MaxRoles == 2        \* roles in one answer of the structured extraction
MaxExisting == 1     \* roles in one answer of the record-store query
MaxRuns == 2         \* run() invocations on one workflow instance
MaxRolesRerun == 1   \* as MaxRoles, where run() is invoked again
MaxExistingRerun == 1 \* as MaxExisting, where run() is invoked again
MaxProposed == 2     \* change items of a record handed to the review step
MaxTasks == 2        \* run() invocations in progress at once on one instance
MaxRequests == 8     \* validate_and_forward requests one gateway process receives
MaxRolesMatch == 2   \* extracted roles of a record handed to the matching step
MaxExistingMatch == 2 \* roles the record-store query answers to the matching step
MaxFindExtracted == 2 \* longest extracted_roles given to find_role_matches
MaxFindExisting == 2  \* longest existing_roles given to find_role_matches
MaxApprovedSave == 2  \* approved new roles of a record handed to the save step
MaxLlmItems == 2      \* items of the list process_resume parses
MaxExistingExtract == 1 \* as MaxExisting, where the run is entered at the extraction step
MaxReviewItems == 1   \* proposed changes of a record the session keeps for the review tab

----------------------------------------------------------------------------
(* Values *)

Absent == "<absent>"    \* a dictionary key that is missing / Python None
NoRecord == [workflow_id |-> 0, document_id |-> Absent, original_file_path |-> Absent,
             review_status |-> Absent, loglen |-> 0, creates |-> 0]

Paths == {"a.pdf"}

\* uuid5(NAMESPACE_DNS, path) is a function of the path alone
DocIdOf(path) == "doc_" \o path

Range(s) == {s[i] : i \in DOMAIN s}

SeqsUpTo(S, n) == UNION {[1..k -> S] : k \in 0..n}

\* str(x).strip().lower() on the strings of the model
Norm(s) ==
    CASE s = "Acme" -> "acme"
      [] s = " acme " -> "acme"
      [] s = "Beta" -> "beta"
      [] s = "Eng" -> "eng"
      [] s = " " -> ""
      [] OTHER -> s

Role(company, title, achievements) ==
    [company |-> company, title |-> title, achievements |-> achievements]
Existing(company, title, notion_page_id) ==
    [company |-> company, title |-> title, achievements |-> << >>,
     notion_page_id |-> notion_page_id]

\* the roles the structured extraction may return ...
ExtractedRoleSet ==
    {Role("Acme", "Eng", <<"Shipped X">>), Role(" acme ", "Eng", << >>),
     Role("", "Eng", << >>)}
\* ... and the roles the record store may hold
ExistingRoleSet ==
    {Existing("Acme", "Eng", "p1"), Existing("Acme", "Eng", "p2"),
     Existing("Beta", "Eng", "p1")}

----------------------------------------------------------------------------
(* Responses of mcp_client.call_tool and the Python tests made on them *)

\* a response: kind is "dict", "none" (None), "str" (a non-dictionary value)
\* or "raise" (call_tool raised); status / error are Absent when the key is
\* missing; payload holds the tool-specific keys
Resp(kind, status, error, payload) ==
    [kind |-> kind, status |-> status, error |-> error, payload |-> payload]

NoPayload == [none |-> TRUE]

Truthy(r) == r.kind \in {"dict", "str"}
IsDict(r) == r.kind = "dict"
\* r.get("status", "").startswith("failure")
StatusStartsWithFailure(r) ==
    r.status \in {"failure", "failure_security_validation",
                  "failure_security_gateway_call", "failure_tool_exception"}
\* r.get("error", default)
GetError(r, default) == IF r.error = Absent THEN default ELSE r.error

\* what the security gateway's validate_and_forward may answer
SgOk == Resp("dict", "success", Absent, NoPayload)
SgReject == Resp("dict", "failure_security_validation", "File type .exe not allowed.", NoPayload)
SgRaise == Resp("raise", Absent, "gateway down", NoPayload)
SgNonDict == Resp("str", Absent, Absent, NoPayload)
SgOutcomes == {SgOk, SgReject, SgRaise, SgNonDict}

ToolFailure == Resp("dict", "failure", "tool failed", NoPayload)
ToolErrorOnly == Resp("dict", Absent, "File not found", NoPayload)
ToolRaise == Resp("raise", Absent, "connection lost", NoPayload)
ToolNone == Resp("none", Absent, Absent, NoPayload)
ToolStr == Resp("str", Absent, Absent, NoPayload)
BadOutcomes == {ToolFailure, ToolErrorOnly, ToolRaise, ToolNone, ToolStr}

\* one entry of the call log
ValidationCall(server_name, tool_name, params, ok) ==
    [server |-> "security_gateway", tool |-> "validate_and_forward",
     target |-> <<server_name, tool_name>>, params |-> params, ok |-> ok]
TargetCall(server_name, tool_name, params, ok) ==
    [server |-> server_name, tool |-> tool_name,
     target |-> << >>, params |-> params, ok |-> ok]

\* whether a response is a success dictionary (what the call log records)
IsSuccess(r) == IsDict(r) /\ r.status = "success"

\* (any dictionary passes as a successful validation)
ValidationPassed_any_dict(validation_result) == IsDict(validation_result)

\* isinstance(validation_result, dict) and validation_result.get("status") == "success"
ValidationPassed(validation_result) ==
    IsDict(validation_result) /\ validation_result.status = "success"

\* _call_mcp_tool(mcp_client, server_name, tool_name, params) with
\* is_security_gateway_call left at its default False, as every caller does;
\* sg and tgt are what call_tool answers to the validation and to the target
\* call. The result carries the returned response and the calls made.
call_mcp_tool(server_name, tool_name, params, sg, tgt) ==
    LET validated == ValidationPassed(sg)
        vcall == ValidationCall(server_name, tool_name, params, IsSuccess(sg))
        vcalls == IF has_sg THEN <<vcall>> ELSE << >>
        tcall == TargetCall(server_name, tool_name, params, IsSuccess(tgt))
        tresp == IF tgt.kind = "raise"
                 THEN Resp("dict", "failure_tool_exception",
                           "Exception calling " \o server_name \o "." \o tool_name
                               \o ": " \o tgt.error, NoPayload)
                 ELSE tgt
    IN  IF has_sg /\ sg.kind = "raise"
        THEN [resp |-> Resp("dict", "failure_security_gateway_call",
                            "Exception calling Security Gateway: " \o sg.error, NoPayload),
              calls |-> vcalls]
        ELSE IF has_sg /\ ~IsDict(sg)
        \* validation_result.get on a non-dictionary raises inside the try
        THEN [resp |-> Resp("dict", "failure_security_gateway_call",
                            "Exception calling Security Gateway: AttributeError", NoPayload),
              calls |-> vcalls]
        ELSE IF has_sg /\ ~validated
        THEN [resp |-> Resp("dict", "failure_security_validation",
                            "Security Gateway: "
                                \o GetError(sg, "Unknown validation error from Security Gateway"),
                            NoPayload),
              calls |-> vcalls]
        ELSE [resp |-> tresp, calls |-> vcalls \o <<tcall>>]

----------------------------------------------------------------------------
(* The state dictionary *)

ClientId == "c1"

\* initial_state_dict of run(): a fresh workflow_id, an empty document_id and
\* no "initial_input_data" key, whatever input_data carries besides the path
InitialState(input_data, uuid) ==
    [workflow_id |-> uuid,
     original_file_path |-> input_data.original_file_path,
     client_id |-> ClientId,
     document_id |-> "",
     document_type |-> Absent,
     raw_content |-> Absent,
     extracted_roles |-> << >>,
     existing_roles |-> << >>,
     matched_pairs |-> << >>,
     new_roles |-> << >>,
     proposed_changes |-> << >>,
     approved_changes |-> << >>,
     rejected_changes |-> << >>,
     review_status |-> "UNPROCESSED",
     error_log |-> << >>,
     current_task_info |-> "Initializing workflow...",
     initial_input_data |-> Absent]

\* the result of a node: the new state dictionary and the calls it made
Out(s, cs, n) == [s |-> s, calls |-> cs, invocations |-> n]

\* response.get(key, default) on the payload keys of a dictionary response
PayloadGet(r, key, default) ==
    IF key \in DOMAIN r.payload THEN r.payload[key] ELSE default

DocumentTypeNames == {"PDF", "DOCX", "DOC", "TEXT", "UNSUPPORTED", "UNKNOWN"}

\* the object identity of the dictionaries of a list a tool returned
\* (oid stands for Python's id() of the i-th dictionary of the list)
Tagged(roles) == [i \in DOMAIN roles |-> roles[i] @@ [oid |-> i]]

----------------------------------------------------------------------------
(* Nodes *)

\* start_workflow (second definition, the one in force); u1 and u2 are
\* fresh uuid4 values
start_workflow(s, u1, u2) ==
    LET s1 == IF s.workflow_id = 0 THEN [s EXCEPT !.workflow_id = u1] ELSE s
        s2 == IF s1.document_id = ""
              THEN IF s1.original_file_path # ""
                   THEN [s1 EXCEPT !.document_id = DocIdOf(s1.original_file_path)]
                   ELSE [s1 EXCEPT !.document_id = "doc_" \o ToString(u2)]
              ELSE s1
    IN  Out([s2 EXCEPT !.current_task_info = "Workflow started. Initializing...",
                       !.review_status = "UNPROCESSED"],
            << >>, 0)

\* classify_document_node (second definition, the one in force)
classify_document_node(s, sg, tgt) ==
    LET s0 == [s EXCEPT !.current_task_info = "Classifying document and extracting text..."]
        file_path == s0.original_file_path
        r == call_mcp_tool("document_processor", "extract_text",
                           [file_path |-> file_path], sg, tgt)
        response == r.resp
        doc_type_str == PayloadGet(response, "document_type", Absent)
        failed(msg) == [s0 EXCEPT !.error_log = Append(@, msg),
                                  !.review_status = "ERROR",
                                  !.document_type = "UNSUPPORTED"]
    IN  IF file_path = ""
        THEN Out([s0 EXCEPT !.error_log = Append(@, "Original file path is missing."),
                            !.review_status = "ERROR"], << >>, 0)
        ELSE IF ~IsDict(response)
        \* response.get on None or on a non-dictionary raises inside the try
        THEN Out(failed("Exception in classify_document_node: AttributeError"), r.calls, 1)
        ELSE IF response.status = "success"
        THEN LET s1 == [s0 EXCEPT !.raw_content =
                                      PayloadGet(response, "extracted_text", Absent)]
             IN  IF doc_type_str \in {Absent, ""}
                 THEN Out([s1 EXCEPT !.document_type = "UNKNOWN"], r.calls, 1)
                 ELSE IF doc_type_str \in DocumentTypeNames
                 THEN Out([s1 EXCEPT !.document_type = doc_type_str], r.calls, 1)
                 ELSE Out([s1 EXCEPT !.document_type = "UNSUPPORTED",
                                     !.error_log = Append(@, "Unknown document type string: "
                                                              \o doc_type_str)],
                          r.calls, 1)
        ELSE Out(failed(GetError(response, "Failed to extract text/classify.")), r.calls, 1)

\* (UNSUPPORTED is let through)
DocTypeRejected_unknown_only(doc_type) == doc_type \in {Absent, "UNKNOWN"}

\* not doc_type or doc_type in [DocumentType.UNSUPPORTED, DocumentType.UNKNOWN]
DocTypeRejected(doc_type) == doc_type \in {Absent, "UNSUPPORTED", "UNKNOWN"}

\* extract_information_node (second definition, the one in force)
extract_information_node(s, sg, tgt) ==
    LET s0 == [s EXCEPT !.current_task_info = "Extracting structured information..."]
        doc_type == s0.document_type
        r == call_mcp_tool("document_processor", "process_resume",
                           [document_path |-> s0.original_file_path,
                            client_id |-> s0.client_id], sg, tgt)
        response == r.resp
        error(msg) == [s0 EXCEPT !.error_log = Append(@, msg), !.review_status = "ERROR"]
    IN  IF DocTypeRejected(doc_type)
        THEN Out(error("Doc type "
                       \o (IF doc_type = Absent THEN "None" ELSE doc_type)
                       \o " unsupported."), << >>, 0)
        ELSE IF s0.raw_content \in {Absent, ""}
        THEN Out(error("Raw content missing for extraction."), << >>, 0)
        ELSE IF response.kind = "none"
        THEN Out(error("No response from process_resume."), r.calls, 1)
        ELSE IF ~IsDict(response)
        THEN Out(error("Exception in extract_information_node: AttributeError"), r.calls, 1)
        ELSE Out([s0 EXCEPT !.extracted_roles =
                                PayloadGet(response, "professional_history", << >>),
                            !.error_log = @ \o PayloadGet(response, "errors", << >>)],
                 r.calls, 1)

\* (an existing role that is already matched is not skipped)
FirstMatch_no_skip(extr_role, existing, matched_existing_ids) ==
    LET extr_company == Norm(extr_role.company)
        extr_title == Norm(extr_role.title)
        hit(j) == /\ extr_company # ""
                  /\ extr_title # ""
                  /\ extr_company = Norm(existing[j].company)
                  /\ extr_title = Norm(existing[j].title)
        hits == {j \in DOMAIN existing : hit(j)}
    IN  IF hits = {} THEN 0 ELSE CHOOSE j \in hits : \A k \in hits : j <= k

\* the first existing role, in list order, that is not yet matched and has
\* the same non-empty company and title after strip().lower(); 0 when none
FirstMatch(extr_role, existing, matched_existing_ids) ==
    LET extr_company == Norm(extr_role.company)
        extr_title == Norm(extr_role.title)
        hit(j) == /\ existing[j].notion_page_id \notin matched_existing_ids
                  /\ extr_company # ""
                  /\ extr_title # ""
                  /\ extr_company = Norm(existing[j].company)
                  /\ extr_title = Norm(existing[j].title)
        hits == {j \in DOMAIN existing : hit(j)}
    IN  IF hits = {} THEN 0 ELSE CHOOSE j \in hits : \A k \in hits : j <= k

\* the loop "for extr_role in extracted_roles" from its i-th iteration on
RECURSIVE MatchLoop(_, _, _, _, _, _)
MatchLoop(extracted, existing, i, matched_existing_ids, pairs, news) ==
    IF i > Len(extracted)
    THEN [matched_pairs |-> pairs, new_roles |-> news]
    ELSE LET j == FirstMatch(extracted[i], existing, matched_existing_ids)
         IN  IF j # 0
             THEN MatchLoop(extracted, existing, i + 1,
                            matched_existing_ids \cup {existing[j].notion_page_id},
                            Append(pairs, [extracted |-> extracted[i],
                                           existing |-> existing[j],
                                           match_score |-> 95]),
                            news)
             ELSE MatchLoop(extracted, existing, i + 1, matched_existing_ids,
                            pairs, Append(news, extracted[i]))

\* (the status the query branch left is kept)
MatchFinalStatus_kept(review_status) ==
    IF review_status = "ERROR_NOTION_QUERY" THEN review_status ELSE "MATCHING_COMPLETED"

\* state["review_status"] = "MATCHING_COMPLETED" after the matching loop,
\* whatever the query branch had assigned
MatchFinalStatus(review_status) == "MATCHING_COMPLETED"

\* match_to_existing_roles_node
match_to_existing_roles_node(s, sg, tgt) ==
    LET s0 == [s EXCEPT !.current_task_info = "Matching roles to existing Notion entries...",
                        !.matched_pairs = << >>,
                        !.new_roles = << >>]
        r == call_mcp_tool("notion_integration", "query_existing_roles",
                           [client_id |-> s0.client_id], sg, tgt)
        notion_response == r.resp
        s1 == IF notion_response.status = "success"
              THEN [s0 EXCEPT !.existing_roles = PayloadGet(notion_response, "roles", << >>)]
              ELSE [s0 EXCEPT !.error_log =
                                  Append(@, GetError(notion_response,
                                             "Failed to query existing roles from Notion.")),
                              !.review_status = "ERROR_NOTION_QUERY",
                              !.existing_roles = << >>]
        m == MatchLoop(s1.extracted_roles, s1.existing_roles, 1, {}, << >>, << >>)
    IN  IF s0.extracted_roles = << >>
        THEN Out([s0 EXCEPT !.review_status = "MATCHING_SKIPPED_NO_ROLES"], << >>, 0)
        ELSE IF ~IsDict(notion_response)
        \* notion_response.get on None or on a non-dictionary raises: the
        \* except clause logs it, nothing has been matched yet
        THEN Out([s0 EXCEPT !.error_log =
                                Append(@, "Exception in match_to_existing_roles_node: AttributeError"),
                            !.review_status = "ERROR_MATCHING"], r.calls, 1)
        ELSE Out([s1 EXCEPT !.matched_pairs = m.matched_pairs,
                            !.new_roles = m.new_roles,
                            !.review_status = MatchFinalStatus(s1.review_status)],
                 r.calls, 1)

\* (the status is PENDING_REVIEW whether or not anything is proposed)
generate_diff_node_always_pending(s) ==
    LET new_items == [i \in DOMAIN s.new_roles |->
                         [type |-> "NEW_ROLE", data |-> s.new_roles[i]]]
        matched_items == [i \in DOMAIN s.matched_pairs |->
                             [type |-> "MATCHED_ROLE",
                              extracted_data |-> s.matched_pairs[i].extracted,
                              existing_data |-> s.matched_pairs[i].existing,
                              diff |-> "No detailed diff generated for MVP. Review side-by-side."]]
    IN  Out([s EXCEPT !.proposed_changes = new_items \o matched_items,
                      !.current_task_info = "Generating comparison for human review...",
                      !.review_status = "PENDING_REVIEW"], << >>, 0)

\* (the pairs are listed before the new roles)
generate_diff_node_matched_first(s) ==
    LET new_items == [i \in DOMAIN s.new_roles |->
                         [type |-> "NEW_ROLE", data |-> s.new_roles[i]]]
        matched_items == [i \in DOMAIN s.matched_pairs |->
                             [type |-> "MATCHED_ROLE",
                              extracted_data |-> s.matched_pairs[i].extracted,
                              existing_data |-> s.matched_pairs[i].existing,
                              diff |-> "No detailed diff generated for MVP. Review side-by-side."]]
        proposed_changes_list == matched_items \o new_items
    IN  IF proposed_changes_list = << >>
        THEN Out([s EXCEPT !.proposed_changes = proposed_changes_list,
                           !.current_task_info = "No new or matched roles to review.",
                           !.review_status = "REVIEW_NOT_NEEDED"], << >>, 0)
        ELSE Out([s EXCEPT !.proposed_changes = proposed_changes_list,
                           !.current_task_info = "Generating comparison for human review...",
                           !.review_status = "PENDING_REVIEW"], << >>, 0)

\* generate_diff_node
generate_diff_node(s) ==
    LET new_items == [i \in DOMAIN s.new_roles |->
                         [type |-> "NEW_ROLE", data |-> s.new_roles[i]]]
        matched_items == [i \in DOMAIN s.matched_pairs |->
                             [type |-> "MATCHED_ROLE",
                              extracted_data |-> s.matched_pairs[i].extracted,
                              existing_data |-> s.matched_pairs[i].existing,
                              diff |-> "No detailed diff generated for MVP. Review side-by-side."]]
        proposed_changes_list == new_items \o matched_items
    IN  IF proposed_changes_list = << >>
        THEN Out([s EXCEPT !.proposed_changes = proposed_changes_list,
                           !.current_task_info = "No new or matched roles to review.",
                           !.review_status = "REVIEW_NOT_NEEDED"], << >>, 0)
        ELSE Out([s EXCEPT !.proposed_changes = proposed_changes_list,
                           !.current_task_info = "Generating comparison for human review...",
                           !.review_status = "PENDING_REVIEW"], << >>, 0)

\* the items of a list of change items whose type is NEW_ROLE, in order
RECURSIVE NewRoleItems(_)
NewRoleItems(items) ==
    IF items = << >> THEN << >>
    ELSE (IF Head(items).type = "NEW_ROLE" THEN <<Head(items)>> ELSE << >>)
             \o NewRoleItems(Tail(items))

\* (APPROVE_ALL records the proposed items in both lists)
human_review_node_approve_all_in_both(s) ==
    LET simulated_outcome == IF s.initial_input_data = Absent
                             THEN "APPROVE_ALL_NEW"
                             ELSE s.initial_input_data
        s0 == [s EXCEPT !.current_task_info = "Awaiting human review (simulated)...",
                        !.approved_changes = << >>,
                        !.rejected_changes = << >>]
        proposed_changes == s0.proposed_changes
    IN  IF proposed_changes = << >>
        THEN Out([s0 EXCEPT !.review_status = "REVIEW_SKIPPED_NO_PROPOSALS"], << >>, 0)
        ELSE IF simulated_outcome = "APPROVE_ALL"
        THEN Out([s0 EXCEPT !.approved_changes = proposed_changes,
                            !.rejected_changes = proposed_changes,
                            !.review_status = "APPROVED"], << >>, 0)
        ELSE IF simulated_outcome = "APPROVE_ALL_NEW"
        THEN Out([s0 EXCEPT !.approved_changes = NewRoleItems(proposed_changes),
                            !.review_status = "APPROVED"], << >>, 0)
        ELSE IF simulated_outcome = "REJECT_ALL"
        THEN Out([s0 EXCEPT !.rejected_changes = proposed_changes,
                            !.review_status = "REJECTED"], << >>, 0)
        ELSE Out([s0 EXCEPT !.error_log =
                                Append(@, "Unknown simulated_review_outcome: " \o simulated_outcome
                                          \o ". Defaulting to no changes approved."),
                            !.review_status = "REVIEW_ERROR_UNKNOWN_OUTCOME"], << >>, 0)

\* human_review_node; the outcome is read from state["initial_input_data"]
human_review_node(s) ==
    LET simulated_outcome == IF s.initial_input_data = Absent
                             THEN "APPROVE_ALL_NEW"
                             ELSE s.initial_input_data
        s0 == [s EXCEPT !.current_task_info = "Awaiting human review (simulated)...",
                        !.approved_changes = << >>,
                        !.rejected_changes = << >>]
        proposed_changes == s0.proposed_changes
    IN  IF proposed_changes = << >>
        THEN Out([s0 EXCEPT !.review_status = "REVIEW_SKIPPED_NO_PROPOSALS"], << >>, 0)
        ELSE IF simulated_outcome = "APPROVE_ALL"
        THEN Out([s0 EXCEPT !.approved_changes = proposed_changes,
                            !.review_status = "APPROVED"], << >>, 0)
        ELSE IF simulated_outcome = "APPROVE_ALL_NEW"
        THEN Out([s0 EXCEPT !.approved_changes = NewRoleItems(proposed_changes),
                            !.review_status = "APPROVED"], << >>, 0)
        ELSE IF simulated_outcome = "REJECT_ALL"
        THEN Out([s0 EXCEPT !.rejected_changes = proposed_changes,
                            !.review_status = "REJECTED"], << >>, 0)
        ELSE Out([s0 EXCEPT !.error_log =
                                Append(@, "Unknown simulated_review_outcome: " \o simulated_outcome
                                          \o ". Defaulting to no changes approved."),
                            !.review_status = "REVIEW_ERROR_UNKNOWN_OUTCOME"], << >>, 0)

\* (the conditional edge leads back to the review step)
decide_after_review_back_to_review(s) == [route |-> "human_review", s |-> s]

\* (APPROVED goes to save_data whether or not anything was approved)
decide_after_review_unchecked(s) ==
    LET review_status == s.review_status
    IN  IF review_status = "APPROVED"
        THEN [route |-> "save_data", s |-> s]
        ELSE IF review_status \in {"REJECTED", "REVIEW_SKIPPED_NO_PROPOSALS",
                                   "REVIEW_NOT_NEEDED"}
        THEN [route |-> "end_workflow", s |-> s]
        ELSE [route |-> "end_workflow",
              s |-> [s EXCEPT !.error_log =
                                  Append(@, "Unexpected review status in decide_after_review: "
                                            \o review_status)]]

\* decide_after_review: the branch taken and the state it leaves (the
\* anomaly is appended to the state's own error_log list)
decide_after_review(s) ==
    LET review_status == s.review_status
    IN  IF review_status = "APPROVED"
        THEN IF s.approved_changes # << >>
             THEN [route |-> "save_data", s |-> s]
             ELSE [route |-> "end_workflow", s |-> s]
        ELSE IF review_status = "REJECTED"
        THEN [route |-> "end_workflow", s |-> s]
        ELSE IF review_status \in {"REVIEW_SKIPPED_NO_PROPOSALS", "REVIEW_NOT_NEEDED"}
        THEN [route |-> "end_workflow", s |-> s]
        ELSE [route |-> "end_workflow",
              s |-> [s EXCEPT !.error_log =
                                  Append(@, "Unexpected review status in decide_after_review: "
                                            \o review_status)]]

\* "ERROR" in status, on the statuses of the model
HasERROR(status) ==
    status \in {"ERROR", "ERROR_SECURITY", "ERROR_LLM_EXTRACTION", "ERROR_NOTION_QUERY",
                "ERROR_MATCHING", "REVIEW_ERROR_UNKNOWN_OUTCOME",
                "SAVE_COMPLETED_WITH_ERRORS"}

\* status.startswith("SAVE_"), on the statuses of the model
StartsWithSAVE(status) ==
    status \in {"SAVE_COMPLETED", "SAVE_COMPLETED_WITH_ERRORS", "SAVE_FAILED", "SAVE_SKIPPED"}

\* (the test is inverted: achievement_text.strip())
IsBlank_inverted(text) == Norm(text) # ""

\* not achievement_text.strip()
IsBlank(text) == Norm(text) = ""

\* (the response is tested for a "success" key, as get_database_schema answers)
CitationSucceeded_success_key(citation_response) ==
    "success" \in DOMAIN citation_response.payload

\* citation_response and citation_response.get("status") == "success"
CitationSucceeded(citation_response) == citation_response.status = "success"

\* (a role counts as saved only when its citation loop ran to its end)
saved_increment_after_citations(raised) == IF raised THEN 0 ELSE 1

\* saved_count += 1 comes before the citation loop: what happens in the loop
\* does not change it
saved_increment(raised) == 1

\* the loop "for achievement_text in role_data.get('achievements', [])" from
\* its k-th iteration on; cite[k] is what call_tool answers for the k-th
\* achievement. raised tells that citation_response.get raised, which leaves
\* the loop for the except clause of the role.
RECURSIVE CiteLoop(_, _, _, _, _, _)
CiteLoop(s, role_data, notion_page_id, k, cite, acc) ==
    IF k > Len(role_data.achievements)
    THEN [error_log |-> acc.error_log, calls |-> acc.calls,
          invocations |-> acc.invocations, raised |-> FALSE]
    ELSE LET achievement_text == role_data.achievements[k]
             citation_payload ==
                 [source_document_fingerprint |-> s.document_id,
                  original_extracted_text |-> achievement_text,
                  document_id |-> s.document_id,
                  notion_page_id |-> notion_page_id,
                  notion_field_name |-> "achievements"]
             r == call_mcp_tool("citation_tracker", "track_extraction",
                                citation_payload, cite[k].sg, cite[k].tgt)
             citation_response == r.resp
         IN  IF IsBlank(achievement_text)
             THEN CiteLoop(s, role_data, notion_page_id, k + 1, cite, acc)
             ELSE IF ~IsDict(citation_response)
             THEN [error_log |-> acc.error_log, calls |-> acc.calls \o r.calls,
                   invocations |-> acc.invocations + 1, raised |-> TRUE]
             ELSE IF CitationSucceeded(citation_response)
             THEN CiteLoop(s, role_data, notion_page_id, k + 1, cite,
                           [acc EXCEPT !.calls = @ \o r.calls, !.invocations = @ + 1])
             ELSE CiteLoop(s, role_data, notion_page_id, k + 1, cite,
                           [acc EXCEPT !.calls = @ \o r.calls, !.invocations = @ + 1,
                                       !.error_log =
                                           Append(@, "Citation fail for '" \o achievement_text
                                                     \o "...': "
                                                     \o GetError(citation_response, "Unknown"))])

\* the loop "for role_data in roles_to_save" from its i-th iteration on
RECURSIVE SaveLoop(_, _, _, _, _)
SaveLoop(s, roles_to_save, i, outs, acc) ==
    IF i > Len(roles_to_save)
    THEN acc
    ELSE LET role_data == roles_to_save[i]
             r == call_mcp_tool("notion_integration", "add_professional_role",
                                [role_data |-> role_data], outs[i].add.sg, outs[i].add.tgt)
             notion_add_response == r.resp
             acc1 == [acc EXCEPT !.processed_roles_count = @ + 1,
                                 !.calls = @ \o r.calls,
                                 !.invocations = @ + 1]
             exception == "Exception saving role '" \o role_data.company \o "': AttributeError"
             c == CiteLoop(s, role_data,
                           PayloadGet(notion_add_response, "notion_page_id", Absent),
                           1, outs[i].cite,
                           [error_log |-> acc1.error_log, calls |-> acc1.calls,
                            invocations |-> acc1.invocations])
         IN  IF ~IsDict(notion_add_response)
             THEN SaveLoop(s, roles_to_save, i + 1, outs,
                           [acc1 EXCEPT !.error_log = Append(@, exception)])
             ELSE IF notion_add_response.status = "success"
             THEN SaveLoop(s, roles_to_save, i + 1, outs,
                           [acc1 EXCEPT !.saved_count = @ + saved_increment(c.raised),
                                        !.calls = c.calls,
                                        !.invocations = c.invocations,
                                        !.error_log = IF c.raised
                                                      THEN Append(c.error_log, exception)
                                                      ELSE c.error_log])
             ELSE SaveLoop(s, roles_to_save, i + 1, outs,
                           [acc1 EXCEPT !.error_log =
                                            Append(@, "Notion save fail for '"
                                                      \o role_data.company \o "': "
                                                      \o GetError(notion_add_response, "Unknown"))])

\* item.get('data') of the approved NEW_ROLE items, in order
RolesToSave(approved_items) ==
    LET items == NewRoleItems(approved_items)
    IN  [i \in DOMAIN items |-> items[i].data]

\* (the skip is reported with the plain status)
save_skipped_status_plain(review_status) == "SAVE_SKIPPED"

\* state.get("review_status", "") + "_SAVE_SKIPPED_NO_APPROVED_NEW_ROLES"
save_skipped_status(review_status) ==
    review_status \o "_SAVE_SKIPPED_NO_APPROVED_NEW_ROLES"

\* (one saved role is enough for SAVE_COMPLETED)
save_status_any_saved(saved_count, processed_roles_count, review_status) ==
    IF saved_count > 0 THEN "SAVE_COMPLETED"
    ELSE IF processed_roles_count > 0 THEN "SAVE_FAILED"
    ELSE IF StartsWithSAVE(review_status) THEN review_status ELSE "SAVE_SKIPPED"

\* the status chosen from how many of the roles were saved
save_status(saved_count, processed_roles_count, review_status) ==
    IF saved_count = processed_roles_count /\ processed_roles_count > 0
    THEN "SAVE_COMPLETED"
    ELSE IF saved_count > 0 /\ saved_count < processed_roles_count
    THEN "SAVE_COMPLETED_WITH_ERRORS"
    ELSE IF processed_roles_count > 0 /\ saved_count = 0
    THEN "SAVE_FAILED"
    ELSE IF StartsWithSAVE(review_status) THEN review_status ELSE "SAVE_SKIPPED"

\* save_approved_data_node; outs[i] is what call_tool answers while the i-th
\* role is saved
save_approved_data_node(s, outs) ==
    LET s0 == [s EXCEPT !.current_task_info =
                            "Saving approved data to Notion and tracking citations..."]
        roles_to_save == RolesToSave(s0.approved_changes)
        done == SaveLoop(s0, roles_to_save, 1, outs,
                         [saved_count |-> 0, processed_roles_count |-> 0,
                          error_log |-> s0.error_log, calls |-> << >>, invocations |-> 0])
        saved_count == done.saved_count
        processed_roles_count == done.processed_roles_count
        s1 == [s0 EXCEPT !.error_log = done.error_log]
    IN  IF roles_to_save = << >>
        THEN Out([s0 EXCEPT !.review_status = save_skipped_status(@),
                            !.current_task_info = "No new roles approved for saving."],
                 << >>, 0)
        ELSE Out([s1 EXCEPT !.current_task_info =
                                IF saved_count = processed_roles_count
                                       /\ processed_roles_count > 0
                                THEN "Successfully saved new roles"
                                ELSE IF saved_count > 0 /\ saved_count < processed_roles_count
                                THEN "Partially saved data"
                                ELSE IF processed_roles_count > 0 /\ saved_count = 0
                                THEN "Failed to save any"
                                ELSE "No new roles were processed for saving.",
                            !.review_status =
                                save_status(saved_count, processed_roles_count, @)],
                 done.calls, done.invocations)

\* (the final record is handed back with a fresh error_log)
end_workflow_node_fresh_log(s) ==
    LET final_status == s.review_status
    IN  Out([s EXCEPT !.error_log = << >>,
                      !.current_task_info =
                 IF HasERROR(final_status)
                 THEN "Workflow finished with errors. Final Status: " \o final_status
                 ELSE IF final_status = "SAVE_COMPLETED"
                 THEN "Workflow finished successfully. Data saved."
                 ELSE IF final_status = "SAVE_COMPLETED_WITH_ERRORS"
                 THEN "Workflow finished. Some data saved, but errors occurred."
                 ELSE IF final_status \in {"REJECTED", "REVIEW_SKIPPED_NO_PROPOSALS",
                                           "REVIEW_NOT_NEEDED", "APPROVED"}
                 THEN "Workflow finished. Final Status: " \o final_status
                          \o ". No data saved to Notion."
                 ELSE "Workflow finished. Final Status: " \o final_status \o "."],
            << >>, 0)

\* end_workflow_node
end_workflow_node(s) ==
    LET final_status == s.review_status
    IN  Out([s EXCEPT !.current_task_info =
                 IF HasERROR(final_status)
                 THEN "Workflow finished with errors. Final Status: " \o final_status
                 ELSE IF final_status = "SAVE_COMPLETED"
                 THEN "Workflow finished successfully. Data saved."
                 ELSE IF final_status = "SAVE_COMPLETED_WITH_ERRORS"
                 THEN "Workflow finished. Some data saved, but errors occurred."
                 ELSE IF final_status \in {"REJECTED", "REVIEW_SKIPPED_NO_PROPOSALS",
                                           "REVIEW_NOT_NEEDED", "APPROVED"}
                 THEN "Workflow finished. Final Status: " \o final_status
                          \o ". No data saved to Notion."
                 ELSE "Workflow finished. Final Status: " \o final_status \o "."],
            << >>, 0)

----------------------------------------------------------------------------
(* What the environment may answer *)

\* the answers to one _call_mcp_tool: to the validation call and, when the
\* validation passes (or is not configured), to the target call
CallOutcomes(targets) ==
    {[sg |-> SgOk, tgt |-> t] : t \in targets}
        \cup {[sg |-> g, tgt |-> ToolNone] : g \in SgOutcomes \ {SgOk}}

ExtractTextOk(text, type) ==
    Resp("dict", "success", Absent, [extracted_text |-> text, document_type |-> type])
ExtractTextOutcomes ==
    {ExtractTextOk("resume text", "PDF"), ExtractTextOk("", "PDF"),
     ExtractTextOk("resume text", "TXT"), ExtractTextOk("resume text", Absent)}
        \cup BadOutcomes

ProcessResumeOk(roles, errors) ==
    Resp("dict", "success", Absent,
         [professional_history |-> Tagged(roles), errors |-> errors])
ProcessResumeOutcomes(n) ==
    {ProcessResumeOk(roles, << >>) : roles \in SeqsUpTo(ExtractedRoleSet, n)}
        \cup {ProcessResumeOk(<<r>>, <<"LLM returned partial JSON">>) : r \in ExtractedRoleSet}
        \cup BadOutcomes

QueryOk(roles) == Resp("dict", "success", Absent, [roles |-> Tagged(roles)])
QueryOutcomes(m) ==
    {QueryOk(roles) : roles \in SeqsUpTo(ExistingRoleSet, m)} \cup BadOutcomes

AddOk == Resp("dict", "success", Absent, [notion_page_id |-> "p_new"])
\* (while saving, the gateway either passes or rejects the call)
SaveCallOutcomes(targets) ==
    {o \in CallOutcomes(targets) : o.sg \in {SgOk, SgReject}}
AddOutcomes == SaveCallOutcomes({AddOk, ToolFailure, ToolNone})
CiteOk == Resp("dict", "success", Absent, [citation_id |-> "c_new"])
CiteOutcomes == SaveCallOutcomes({CiteOk, ToolFailure, ToolNone})
NoCite == [sg |-> SgOk, tgt |-> CiteOk]

\* the answers while one role is saved; the citation answers only vary when
\* they are asked for
RoleSaveOutcomes(role_data) ==
    {[add |-> a, cite |-> c] :
        a \in AddOutcomes,
        c \in [DOMAIN role_data.achievements -> CiteOutcomes]}
SaveOutcomes(roles_to_save) ==
    {outs \in [DOMAIN roles_to_save -> UNION {RoleSaveOutcomes(roles_to_save[i]) :
                                                  i \in DOMAIN roles_to_save}] :
        \A i \in DOMAIN roles_to_save :
            /\ outs[i] \in RoleSaveOutcomes(roles_to_save[i])
            /\ (outs[i].add.tgt # AddOk \/ outs[i].add.sg # SgOk)
                   => \A k \in DOMAIN outs[i].cite : outs[i].cite[k] = NoCite}

----------------------------------------------------------------------------
(* The run driver and the graph *)

\* input_data of a first run (upload_ui.py) ...
FreshInputs ==
    [original_file_path : Paths \cup {""},
     workflow_id : {0},
     document_id : {Absent},
     simulated_review_outcome : {"APPROVE_ALL_NEW", "REJECT_ALL"},
     is_review_run : {FALSE}]

\* ... and rerun_input_data, built from the record of the previous run
\* (review_ui.py)
RerunInputs ==
    IF prev = NoRecord THEN {}
    ELSE [original_file_path : {prev.original_file_path},
          workflow_id : {prev.workflow_id},
          document_id : {prev.document_id},
          simulated_review_outcome : {"REVIEW_APPROVED_NEW", "REVIEW_REJECTED_ALL"},
          is_review_run : {TRUE}]

\* (the client is left out of the config handed to graph.ainvoke)
invocation_config_without_client == [recursion_limit |-> 25]

\* invocation_config of run(): the client of this run, opened by
\* "async with MultiServerMCPClient(self.mcp_config) as mcp_client"
invocation_config == [mcp_client |-> "mcp_client", recursion_limit |-> 25]

\* mcp_client = config.get("mcp_client") if config else self._temp_mcp_client,
\* the first statement of the nodes that call tools
NodeClient(config, temp) ==
    IF DOMAIN config # {}
    THEN IF "mcp_client" \in DOMAIN config THEN config.mcp_client ELSE Absent
    ELSE temp

\* "if not mcp_client: raise ValueError(...)": the node raises outside any
\* try, graph.ainvoke raises and so does run(); the attribute is not deleted
ClientMissing == NodeClient(invocation_config, temp_mcp_client) = Absent
RaiseValueError ==
    /\ pc' = "raised"
    /\ UNCHANGED <<st, pre, trace, calls, invocations, creates, input, prev, nextId, runs,
                   has_sg, temp_mcp_client, tasks, gwvars, fnvars, othervars>>

TraceEntry(node, s, route) ==
    [node |-> node, status |-> s.review_status, loglen |-> Len(s.error_log), route |-> route]

IsCreate(c) == c.server = "notion_integration" /\ c.tool = "add_professional_role"
IsCitation(c) == c.server = "citation_tracker" /\ c.tool = "track_extraction"
\* the number of add_professional_role calls of a call log
CreateCount(cs) == Cardinality({i \in DOMAIN cs : IsCreate(cs[i])})

\* a node has run: its result replaces the state and the graph moves on
Step(node, out, next) ==
    /\ st' = out.s
    /\ pre' = st
    /\ trace' = Append(trace, TraceEntry(node, out.s, Absent))
    /\ calls' = calls \o out.calls
    /\ invocations' = invocations + out.invocations
    /\ creates' = creates + CreateCount(out.calls)
    /\ pc' = next
    \* run() deletes the attribute when graph.ainvoke has returned
    /\ temp_mcp_client' = IF next = "done" THEN Absent ELSE temp_mcp_client
    /\ UNCHANGED <<input, prev, nextId, runs, has_sg, tasks, gwvars, fnvars, othervars>>

\* (the path is not looked at before the graph is invoked)
PathMissing_unchecked(original_file_path) == FALSE

\* not initial_state["original_file_path"]
PathMissing(original_file_path) == original_file_path \in {"", Absent}

\* run(input_data) up to the invocation of the graph
Run(input_data) ==
    /\ pc = "idle"
    /\ LET initial_state == InitialState(input_data, nextId)
       IN  /\ pre' = initial_state
           /\ IF PathMissing(initial_state.original_file_path)
              THEN /\ st' = [initial_state EXCEPT
                                !.error_log = Append(@, "Critical: original_file_path is required."),
                                !.review_status = "ERROR"]
                   /\ pc' = "done"
                   /\ UNCHANGED temp_mcp_client
              ELSE /\ st' = initial_state
                   /\ pc' = "start"
                   /\ temp_mcp_client' = "mcp_client"
    /\ input' = input_data
    /\ nextId' = nextId + 1
    /\ runs' = runs + 1
    /\ trace' = << >>
    /\ calls' = << >>
    /\ invocations' = 0
    /\ UNCHANGED <<creates, prev, has_sg, tasks, gwvars, fnvars, dpvars, rpvars>>

Start ==
    /\ pc = "start"
    /\ Step("start", start_workflow(st, nextId, nextId + 1), "classify_document")

ClassifyDocument ==
    /\ pc = "classify_document"
    /\ IF ClientMissing THEN RaiseValueError
       ELSE \E o \in CallOutcomes(ExtractTextOutcomes) :
                Step("classify_document", classify_document_node(st, o.sg, o.tgt),
                     "extract_information")

ExtractInformation(n) ==
    /\ pc = "extract_information"
    /\ IF ClientMissing THEN RaiseValueError
       ELSE \E o \in CallOutcomes(ProcessResumeOutcomes(n)) :
                Step("extract_information", extract_information_node(st, o.sg, o.tgt),
                     "match_roles")

MatchRoles(m) ==
    /\ pc = "match_roles"
    /\ IF ClientMissing THEN RaiseValueError
       ELSE \E o \in CallOutcomes(QueryOutcomes(m)) :
                Step("match_roles", match_to_existing_roles_node(st, o.sg, o.tgt),
                     "generate_diff")

GenerateDiff ==
    /\ pc = "generate_diff"
    /\ Step("generate_diff", generate_diff_node(st), "human_review")

HumanReview ==
    /\ pc = "human_review"
    /\ Step("human_review", human_review_node(st), "decide_after_review")

\* the conditional edge after human_review
DecideAfterReview ==
    /\ pc = "decide_after_review"
    /\ LET d == decide_after_review(st)
       IN  /\ st' = d.s
           /\ pre' = st
           /\ trace' = Append(trace, TraceEntry("decide_after_review", d.s, d.route))
           /\ pc' = d.route
    /\ UNCHANGED <<calls, invocations, creates, input, prev, nextId, runs, has_sg,
                   temp_mcp_client, tasks, gwvars, fnvars, othervars>>

SaveData ==
    /\ pc = "save_data"
    /\ IF ClientMissing THEN RaiseValueError
       ELSE \E outs \in SaveOutcomes(RolesToSave(st.approved_changes)) :
                Step("save_data", save_approved_data_node(st, outs), "end_workflow")

\* end_workflow; the graph reaches END and run() returns final_state
EndWorkflow ==
    /\ pc = "end_workflow"
    /\ Step("end_workflow", end_workflow_node(st), "done")

\* the caller keeps the returned record (st.session_state.latest_workflow_run)
\* and may call run() again
Return ==
    /\ pc = "done"
    /\ runs < MaxRuns
    /\ pc' = "idle"
    /\ prev' = [workflow_id |-> st.workflow_id, document_id |-> st.document_id,
                original_file_path |-> st.original_file_path,
                review_status |-> st.review_status, loglen |-> Len(st.error_log),
                creates |-> creates]
    /\ UNCHANGED <<st, pre, trace, calls, invocations, creates, input, nextId, runs, has_sg,
                   temp_mcp_client, tasks, gwvars, fnvars, othervars>>

\* the gateway process has served no request; no score has been asked for
GatewayIdle ==
    /\ request_count = 0
    /\ forwarded = << >>
    /\ answers = [forwarded |-> 0, invalid |-> 0, rate_limited |-> 0]
NoYear == -1     \* a start_year that is missing or None
NoScore == -1    \* no score has been computed
\* find_role_matches has not been called: no dictionary it returns has these counts
NoResult ==
    [matches |-> << >>, new_roles |-> << >>,
     match_summary |-> [total_extracted |-> NoScore, total_existing |-> NoScore,
                        matched_count |-> NoScore, new_count |-> NoScore]]
FindIdle ==
    /\ find_extracted_roles = << >>
    /\ find_existing_roles = << >>
    /\ find_result = NoResult
ScoringIdle == role1 = Absent /\ role2 = Absent /\ total_score = NoScore /\ FindIdle

\* no record is kept for the review tab and the tab has not been rendered
NoRun == [none |-> TRUE]
NoRender == [rendered |-> FALSE, actions_shown |-> FALSE, submitted |-> Absent,
             triggered |-> FALSE, error |-> Absent]
\* the nine-step workflow has not been given a state
NoPipelineState == [current_step |-> "", completed_steps |-> << >>, error_log |-> << >>]
\* the document processor, the review tab and the nine-step workflow are not
\* in use
OthersIdle ==
    /\ parsed_llm_output = << >>
    /\ latest_workflow_run = NoRun
    /\ ui = NoRender
    /\ rp_state = NoPipelineState
    /\ rp_pc = "idle"

NoInput == [original_file_path |-> Absent, workflow_id |-> 0, document_id |-> Absent,
            simulated_review_outcome |-> Absent, is_review_run |-> FALSE]

\* a workflow instance on which run() has not been called through the
\* sequential driver
WorkflowIdle ==
    /\ pc = "idle"
    /\ st = InitialState(NoInput, 0)
    /\ pre = InitialState(NoInput, 0)
    /\ trace = << >>
    /\ calls = << >>
    /\ invocations = 0
    /\ creates = 0
    /\ input = NoInput
    /\ prev = NoRecord
    /\ nextId = 1
    /\ runs = 0
    /\ has_sg = TRUE
    /\ temp_mcp_client = Absent

Init ==
    /\ pc = "idle"
    /\ st = InitialState(NoInput, 0)
    /\ pre = InitialState(NoInput, 0)
    /\ trace = << >>
    /\ calls = << >>
    /\ invocations = 0
    /\ creates = 0
    /\ input = NoInput
    /\ prev = NoRecord
    /\ nextId = 1
    /\ runs = 0
    /\ has_sg \in BOOLEAN
    /\ temp_mcp_client = Absent
    /\ tasks = << >>
    /\ GatewayIdle
    /\ ScoringIdle
    /\ OthersIdle

Graph(n, m) ==
    \/ Start
    \/ ClassifyDocument
    \/ ExtractInformation(n)
    \/ MatchRoles(m)
    \/ GenerateDiff
    \/ HumanReview
    \/ DecideAfterReview
    \/ SaveData
    \/ EndWorkflow

\* one run() of a workflow instance
Next ==
    \/ \E input_data \in FreshInputs : Run(input_data) /\ UNCHANGED uivars
    \/ Graph(MaxRoles, MaxExisting)

Spec == Init /\ [][Next]_vars

\* run() invoked again by the caller that kept the previous record, either
\* for a new upload or with rerun_input_data
NextRerun ==
    \/ \E input_data \in FreshInputs \cup RerunInputs : Run(input_data) /\ UNCHANGED uivars
    \/ Graph(MaxRolesRerun, MaxExistingRerun)
    \/ Return

SpecRerun == Init /\ [][NextRerun]_vars

----------------------------------------------------------------------------
(* The review step, the conditional edge and what follows, on any record *)

ChangeItems ==
    {[type |-> "NEW_ROLE", data |-> r @@ [oid |-> 1]] : r \in ExtractedRoleSet}
        \cup {[type |-> "MATCHED_ROLE",
               extracted_data |-> Role("Acme", "Eng", <<"Shipped X">>) @@ [oid |-> 1],
               existing_data |-> Existing("Acme", "Eng", "p1") @@ [oid |-> 1],
               diff |-> "No detailed diff generated for MVP. Review side-by-side."]}

ReviewDecisions == {Absent, "APPROVE_ALL", "APPROVE_ALL_NEW", "REJECT_ALL", "REVIEW_REJECTED_ALL"}

StatusesAtDecide ==
    {"APPROVED", "REJECTED", "REVIEW_NOT_NEEDED", "REVIEW_SKIPPED_NO_PROPOSALS",
     "REVIEW_ERROR_UNKNOWN_OUTCOME", "PENDING_REVIEW", "ERROR"}

\* a record as the nodes before the review step leave it
RecordAtReview(proposed, decision, log) ==
    [InitialState([original_file_path |-> "a.pdf"], 1) EXCEPT
        !.document_id = DocIdOf("a.pdf"),
        !.proposed_changes = proposed,
        !.initial_input_data = decision,
        !.error_log = log,
        !.review_status = IF proposed = << >> THEN "REVIEW_NOT_NEEDED" ELSE "PENDING_REVIEW"]

\* the graph entered at human_review, or at the conditional edge, with a
\* record drawn from bounded sets (what a test of the nodes passes them)
InitNode ==
    /\ \E proposed \in SeqsUpTo(ChangeItems, MaxProposed),
          log \in {<< >>, <<"LLM returned partial JSON">>} :
          \/ /\ pc = "human_review"
             /\ \E decision \in ReviewDecisions :
                    st = RecordAtReview(proposed, decision, log)
          \/ /\ pc = "decide_after_review"
             /\ \E status \in StatusesAtDecide,
                   approved \in {<< >>, NewRoleItems(proposed), proposed} :
                    st = [RecordAtReview(proposed, Absent, log) EXCEPT
                             !.review_status = status,
                             !.approved_changes = approved]
    /\ pre = st
    /\ trace = << >>
    /\ calls = << >>
    /\ invocations = 0
    /\ creates = 0
    /\ input = NoInput
    /\ prev = NoRecord
    /\ nextId = 2
    /\ runs = 1
    /\ has_sg \in BOOLEAN
    /\ temp_mcp_client = "mcp_client"
    /\ tasks = << >>
    /\ GatewayIdle
    /\ ScoringIdle
    /\ OthersIdle

NextNode ==
    \/ HumanReview
    \/ DecideAfterReview
    \/ SaveData
    \/ EndWorkflow

SpecNode == InitNode /\ [][NextNode]_vars

----------------------------------------------------------------------------
(* The save step on a record whose approved roles carry several achievements *)

\* roles with two achievements, with a blank one, with none
SaveRoleSet ==
    {Role("Acme", "Eng", <<"Shipped X", "Led Y">>), Role("Beta", "Eng", <<" ", "Shipped X">>),
     Role("Acme", "Mgr", << >>)}

\* the NEW_ROLE items of the roles, as generate_diff_node lists them
NewRoleItemsOf(roles) ==
    [i \in DOMAIN roles |-> [type |-> "NEW_ROLE", data |-> roles[i] @@ [oid |-> i]]]

\* a record as the review step leaves it when it approved every new role
RecordAtSave(roles) ==
    [InitialState([original_file_path |-> "a.pdf"], 1) EXCEPT
        !.document_id = DocIdOf("a.pdf"),
        !.document_type = "PDF",
        !.raw_content = "resume text",
        !.extracted_roles = Tagged(roles),
        !.new_roles = Tagged(roles),
        !.proposed_changes = NewRoleItemsOf(roles),
        !.approved_changes = NewRoleItemsOf(roles),
        !.review_status = "APPROVED"]

InitSave ==
    /\ pc = "save_data"
    /\ \E roles \in SeqsUpTo(SaveRoleSet, MaxApprovedSave) : st = RecordAtSave(roles)
    /\ pre = st
    /\ trace = << >>
    /\ calls = << >>
    /\ invocations = 0
    /\ creates = 0
    /\ input = NoInput
    /\ prev = NoRecord
    /\ nextId = 2
    /\ runs = 1
    /\ has_sg \in BOOLEAN
    /\ temp_mcp_client = "mcp_client"
    /\ tasks = << >>
    /\ GatewayIdle
    /\ ScoringIdle
    /\ OthersIdle

NextSave ==
    \/ SaveData
    \/ EndWorkflow

SpecSave == InitSave /\ [][NextSave]_vars

----------------------------------------------------------------------------
(* The extraction step on what process_resume builds from the language       *)
(* model's answer, and the steps that follow                                 *)

\* an item of the parsed list that is not a dictionary
NotADict == [not_a_dict |-> TRUE]
IsRoleDict(item) == "company" \in DOMAIN item

\* the items the language model may list: a full role, a role without
\* company, a role without company and title, a non-dictionary
LlmItems ==
    {Role("Acme", "Eng", <<"Shipped X">>), Role("", "Eng", << >>), Role("", "", << >>),
     NotADict}

\* the loop "for role_data in parsed_llm_output" of process_resume from its
\* i-th item on: a dictionary is appended to extracted_roles, anything else
\* is reported in llm_errors
RECURSIVE ProcessItems(_, _, _)
ProcessItems(items, i, acc) ==
    IF i > Len(items) THEN acc
    ELSE IF IsRoleDict(items[i])
    THEN ProcessItems(items, i + 1,
                      [acc EXCEPT !.extracted_roles = Append(@, items[i])])
    ELSE ProcessItems(items, i + 1,
                      [acc EXCEPT !.llm_errors =
                           Append(@, "LLM returned a list item that is not a dictionary")])

\* final_data of process_resume for a parsed list
process_resume(parsed) ==
    LET r == ProcessItems(parsed, 1, [extracted_roles |-> << >>, llm_errors |-> << >>])
    IN  ProcessResumeOk(r.extracted_roles, r.llm_errors)

\* a record as classify_document_node leaves it for a readable PDF
RecordAtExtract ==
    [InitialState([original_file_path |-> "a.pdf"], 1) EXCEPT
        !.document_id = DocIdOf("a.pdf"),
        !.document_type = "PDF",
        !.raw_content = "resume text"]

InitExtract ==
    /\ pc = "extract_information"
    /\ st = RecordAtExtract
    /\ pre = st
    /\ trace = << >>
    /\ calls = << >>
    /\ invocations = 0
    /\ creates = 0
    /\ input = NoInput
    /\ prev = NoRecord
    /\ nextId = 2
    /\ runs = 1
    /\ has_sg \in BOOLEAN
    /\ temp_mcp_client = "mcp_client"
    /\ tasks = << >>
    /\ GatewayIdle
    /\ ScoringIdle
    /\ parsed_llm_output \in SeqsUpTo(LlmItems, MaxLlmItems)
    /\ latest_workflow_run = NoRun
    /\ ui = NoRender
    /\ rp_state = NoPipelineState
    /\ rp_pc = "idle"

\* extract_information, process_resume answering what it builds from the
\* parsed list
ExtractFromLlm ==
    /\ pc = "extract_information"
    /\ IF ClientMissing THEN RaiseValueError
       ELSE \E o \in CallOutcomes({process_resume(parsed_llm_output)}) :
                Step("extract_information", extract_information_node(st, o.sg, o.tgt),
                     "match_roles")

NextExtract ==
    \/ ExtractFromLlm
    \/ MatchRoles(MaxExistingExtract)
    \/ GenerateDiff
    \/ HumanReview
    \/ DecideAfterReview
    \/ SaveData
    \/ EndWorkflow

SpecExtract == InitExtract /\ [][NextExtract]_vars

----------------------------------------------------------------------------
(* The review tab of src/components/review_ui.py on the record the session  *)
(* keeps, and the run it starts                                              *)

\* previous_state.get("initial_input_data", {}) of a record without the key,
\* as every record run() returns is
NoInitialInput == [original_file_path |-> Absent, initial_input_data |-> Absent]
\* ... of a record that carries the path alone, and of one that carries the
\* input_data upload_ui.py builds (with its nested 'initial_input_data')
PathOnlyInput == [original_file_path |-> "a.pdf", initial_input_data |-> Absent]
UploadInput == [original_file_path |-> "a.pdf", initial_input_data |-> "APPROVE_ALL_NEW"]

ReviewItems ==
    {[type |-> "NEW_ROLE", data |-> Role("Acme", "Eng", <<"Shipped X">>) @@ [oid |-> 1]],
     [type |-> "MATCHED_ROLE",
      extracted_data |-> Role("Acme", "Eng", <<"Shipped X">>) @@ [oid |-> 1],
      existing_data |-> Existing("Acme", "Eng", "p1") @@ [oid |-> 1],
      diff |-> "No detailed diff generated for MVP. Review side-by-side."]}

ReviewStatuses ==
    {"PENDING_REVIEW", "SAVE_COMPLETED", "REJECTED", "REVIEW_SKIPPED_NO_PROPOSALS", "ERROR"}

\* a record the session may keep for the review tab
SessionRecord(review_status, proposed_changes, initial_input_data) ==
    [InitialState([original_file_path |-> "a.pdf"], 1) EXCEPT
        !.document_id = DocIdOf("a.pdf"),
        !.proposed_changes = proposed_changes,
        !.review_status = review_status,
        !.initial_input_data = initial_input_data]

\* st.session_state.latest_workflow_run = final_state
StoredRun(final_state) == [final_state EXCEPT !.initial_input_data = NoInitialInput]

\* (the buttons are offered whatever the status)
ReviewActionsShown_always(review_status) == TRUE

\* if review_status == "PENDING_REVIEW": the global action buttons
ReviewActionsShown(review_status) == review_status = "PENDING_REVIEW"

ReviewButtons == {"none", "approve_new_roles_button", "reject_all_button"}
ReviewOutcomeOf(button) ==
    IF button = "approve_new_roles_button" THEN "REVIEW_APPROVED_NEW" ELSE "REVIEW_REJECTED_ALL"

Rendered(actions_shown, submitted, triggered, error) ==
    [rendered |-> TRUE, actions_shown |-> actions_shown, submitted |-> submitted,
     triggered |-> triggered, error |-> error]

\* rerun_input_data of trigger_review_workflow
rerun_input_data(previous_state, review_outcome) ==
    [original_file_path |-> previous_state.initial_input_data.original_file_path,
     workflow_id |-> previous_state.workflow_id,
     document_id |-> previous_state.document_id,
     simulated_review_outcome |-> review_outcome,
     is_review_run |-> TRUE]

\* the tab is drawn and nothing is started
ShowOnly(outcome) ==
    /\ ui' = outcome
    /\ UNCHANGED <<wfvars, temp_mcp_client, tasks, gwvars, fnvars, dpvars, rpvars,
                   latest_workflow_run>>

\* render_review_tab with one of its buttons pressed (or none), and, for a
\* pressed button, trigger_review_workflow up to its call of run()
RenderReviewTab(button) ==
    /\ pc = "idle"
    /\ ~ui.triggered
    /\ IF latest_workflow_run = NoRun
       THEN ShowOnly(Rendered(FALSE, Absent, FALSE, Absent))
       ELSE LET current_run_state == latest_workflow_run
                proposed_changes == current_run_state.proposed_changes
                review_status == current_run_state.review_status
                review_outcome == ReviewOutcomeOf(button)
                initial_input_data_for_this_doc == current_run_state.initial_input_data
            IN  IF proposed_changes = << >>
                THEN ShowOnly(Rendered(FALSE, Absent, FALSE, Absent))
                ELSE IF ~ReviewActionsShown(review_status)
                THEN ShowOnly(Rendered(FALSE, Absent, FALSE, Absent))
                ELSE IF button = "none"
                THEN ShowOnly(Rendered(TRUE, Absent, FALSE, Absent))
                ELSE IF initial_input_data_for_this_doc.original_file_path \in {Absent, ""}
                THEN ShowOnly(Rendered(TRUE, review_outcome, FALSE,
                         "Critical error: Could not retrieve original file path from previous state to re-run workflow."))
                ELSE IF initial_input_data_for_this_doc.initial_input_data = Absent
                \* rerun_input_data['initial_input_data'] raises KeyError
                THEN ShowOnly(Rendered(TRUE, review_outcome, FALSE, "KeyError"))
                ELSE /\ Run(rerun_input_data(current_run_state, review_outcome))
                     /\ ui' = Rendered(TRUE, review_outcome, TRUE, Absent)
                     /\ UNCHANGED latest_workflow_run

\* run() has returned to trigger_review_workflow: the session keeps the new
\* record and the page is drawn afresh
StoreReviewRun ==
    /\ pc = "done"
    /\ ui.triggered
    /\ latest_workflow_run' = StoredRun(st)
    /\ ui' = NoRender
    /\ pc' = "idle"
    /\ UNCHANGED <<st, pre, trace, calls, invocations, creates, input, prev, nextId, runs,
                   has_sg, temp_mcp_client, tasks, gwvars, fnvars, dpvars, rpvars>>

InitReviewTab ==
    /\ pc = "idle"
    /\ st = InitialState(NoInput, 0)
    /\ pre = InitialState(NoInput, 0)
    /\ trace = << >>
    /\ calls = << >>
    /\ invocations = 0
    /\ creates = 0
    /\ input = NoInput
    /\ prev = NoRecord
    /\ nextId = 2
    /\ runs = 1
    /\ has_sg \in BOOLEAN
    /\ temp_mcp_client = Absent
    /\ tasks = << >>
    /\ GatewayIdle
    /\ ScoringIdle
    /\ parsed_llm_output = << >>
    /\ \/ latest_workflow_run = NoRun
       \/ \E review_status \in ReviewStatuses,
             proposed \in SeqsUpTo(ReviewItems, MaxReviewItems),
             initial_input \in {NoInitialInput, PathOnlyInput, UploadInput} :
             latest_workflow_run = SessionRecord(review_status, proposed, initial_input)
    /\ ui = NoRender
    /\ rp_state = NoPipelineState
    /\ rp_pc = "idle"

NextReviewTab ==
    \/ \E button \in ReviewButtons : RenderReviewTab(button)
    \/ Graph(MaxRolesRerun, MaxExistingRerun) /\ UNCHANGED uivars
    \/ StoreReviewRun

SpecReviewTab == InitReviewTab /\ [][NextReviewTab]_vars

----------------------------------------------------------------------------
(* The matching step on any record the extraction step can leave *)

\* the extracted roles of such a record ...
MatchExtractedSet == ExtractedRoleSet \cup {Role("Beta", "Eng", << >>)}
\* ... and the roles the query may answer: with the "notion_page_id" key the
\* matching step reads, or without it, as _parse_notion_page_to_role builds
\* them (it stores the page id under "notion_id")
MatchExistingSet ==
    ExistingRoleSet \cup {Existing("Acme", "Eng", Absent), Existing("Beta", "Eng", Absent)}

\* a record as classification and extraction leave it
RecordAtMatch(extracted) ==
    [InitialState([original_file_path |-> "a.pdf"], 1) EXCEPT
        !.document_id = DocIdOf("a.pdf"),
        !.document_type = "PDF",
        !.raw_content = "resume text",
        !.extracted_roles = Tagged(extracted)]

InitMatch ==
    /\ pc = "match_roles"
    /\ \E extracted \in SeqsUpTo(MatchExtractedSet, MaxRolesMatch) :
           st = RecordAtMatch(extracted)
    /\ pre = st
    /\ trace = << >>
    /\ calls = << >>
    /\ invocations = 0
    /\ creates = 0
    /\ input = NoInput
    /\ prev = NoRecord
    /\ nextId = 2
    /\ runs = 1
    /\ has_sg \in BOOLEAN
    /\ temp_mcp_client = "mcp_client"
    /\ tasks = << >>
    /\ GatewayIdle
    /\ ScoringIdle
    /\ OthersIdle

\* match_roles, for any answer to the query
MatchStep ==
    /\ pc = "match_roles"
    /\ IF ClientMissing THEN RaiseValueError
       ELSE \E o \in CallOutcomes({QueryOk(roles) :
                                       roles \in SeqsUpTo(MatchExistingSet, MaxExistingMatch)}
                                      \cup BadOutcomes) :
                Step("match_roles", match_to_existing_roles_node(st, o.sg, o.tgt),
                     "generate_diff")

NextMatch == MatchStep

SpecMatch == InitMatch /\ [][NextMatch]_vars

----------------------------------------------------------------------------
(* run() invocations in progress at once on one workflow instance, for       *)
(* distinct documents. Each invocation has its own frame (its record, its    *)
(* client, its config); self._temp_mcp_client is the instance's. An          *)
(* invocation gives way to the others where it awaits: entering and leaving  *)
(* "async with", and between and inside the nodes of graph.ainvoke.          *)

TaskPath(i) == "doc" \o ToString(i) \o ".pdf"
\* the client "async with MultiServerMCPClient(self.mcp_config)" opens for
\* the i-th invocation
TaskClient(i) == "mcp_client_" \o ToString(i)

\* the frame of an invocation: where it is, its mcp_client, the document_id
\* of its record and the clients its nodes called the tools with
NewTask(i) == [pc |-> "idle", mcp_client |-> Absent, document_id |-> "", used |-> << >>]

GraphNodes == {"start", "classify_document", "extract_information", "match_roles",
               "generate_diff", "human_review", "save_data", "end_workflow"}
\* the nodes that begin by looking for the client
UsesClient(node) ==
    node \in {"classify_document", "extract_information", "match_roles", "save_data"}
\* the edges of the graph; after end_workflow graph.ainvoke returns
Successors(node) ==
    CASE node = "start" -> {"classify_document"}
      [] node = "classify_document" -> {"extract_information"}
      [] node = "extract_information" -> {"match_roles"}
      [] node = "match_roles" -> {"generate_diff"}
      [] node = "generate_diff" -> {"human_review"}
      [] node = "human_review" -> {"save_data", "end_workflow"}
      [] node = "save_data" -> {"end_workflow"}
      [] node = "end_workflow" -> {"del"}

\* run() is called and awaits the opening of its client
TaskCall(i) ==
    /\ tasks[i].pc = "idle"
    /\ tasks' = [tasks EXCEPT ![i].pc = "aenter"]
    /\ UNCHANGED <<wfvars, temp_mcp_client, gwvars, fnvars, othervars>>

\* the client is open: run() sets self._temp_mcp_client and invokes the graph
TaskEnter(i) ==
    /\ tasks[i].pc = "aenter"
    /\ tasks' = [tasks EXCEPT ![i].pc = "start", ![i].mcp_client = TaskClient(i)]
    /\ temp_mcp_client' = TaskClient(i)
    /\ UNCHANGED <<wfvars, gwvars, fnvars, othervars>>

\* one node of the graph runs for the i-th invocation
TaskNode(i) ==
    LET t == tasks[i]
        config == [invocation_config EXCEPT !.mcp_client = t.mcp_client]
        mcp_client == NodeClient(config, temp_mcp_client)
    IN  /\ t.pc \in GraphNodes
        /\ IF UsesClient(t.pc) /\ mcp_client = Absent
           THEN tasks' = [tasks EXCEPT ![i].pc = "raised"]
           ELSE \E next \in Successors(t.pc) :
                    tasks' = [tasks EXCEPT
                                 ![i].pc = next,
                                 ![i].document_id =
                                     IF t.pc = "start" THEN DocIdOf(TaskPath(i)) ELSE @,
                                 ![i].used =
                                     IF UsesClient(t.pc) THEN Append(@, mcp_client) ELSE @]
        /\ UNCHANGED <<wfvars, temp_mcp_client, gwvars, fnvars, othervars>>

\* graph.ainvoke has returned: "del self._temp_mcp_client", which raises
\* AttributeError when the instance has no such attribute; the exception
\* leaves "async with" and run()
TaskDel(i) ==
    /\ tasks[i].pc = "del"
    /\ IF temp_mcp_client = Absent
       THEN /\ tasks' = [tasks EXCEPT ![i].pc = "raised"]
            /\ UNCHANGED temp_mcp_client
       ELSE /\ tasks' = [tasks EXCEPT ![i].pc = "aexit"]
            /\ temp_mcp_client' = Absent
    /\ UNCHANGED <<wfvars, gwvars, fnvars, othervars>>

\* the client is closed and run() returns final_state
TaskReturn(i) ==
    /\ tasks[i].pc = "aexit"
    /\ tasks' = [tasks EXCEPT ![i].pc = "returned"]
    /\ UNCHANGED <<wfvars, temp_mcp_client, gwvars, fnvars, othervars>>

InitConcurrent ==
    /\ WorkflowIdle
    /\ tasks = [i \in 1..MaxTasks |-> NewTask(i)]
    /\ GatewayIdle
    /\ ScoringIdle
    /\ OthersIdle

NextConcurrent ==
    \E i \in 1..MaxTasks :
        \/ TaskCall(i)
        \/ TaskEnter(i)
        \/ TaskNode(i)
        \/ TaskDel(i)
        \/ TaskReturn(i)

SpecConcurrent == InitConcurrent /\ [][NextConcurrent]_vars

----------------------------------------------------------------------------
(* The security gateway process of src/mcp_servers/security_gateway/server.py *)

RATE_LIMIT == 5

\* a parameter value: a string, held as the sequence of its characters, or a
\* value that is not a string
Str(chars) == [type |-> "str", chars |-> chars]
NonStr == [type |-> "int", chars |-> << >>]

\* the character class [\w\-/\\.] on the characters of the model
SafeChar(c) == c \in {"a", "b", "x", "p", "d", "f", "_", "1", "-", "/", "\\", "."}

\* SAFE_PATH.match(value) for SAFE_PATH = ^[\w\-/\\.]+$ : one or more
\* characters of the class up to the end of the string, or up to a newline
\* that ends it
SAFE_PATH_match(value) ==
    LET n == Len(value)
        body == IF n > 0 /\ value[n] = "\n" THEN n - 1 ELSE n
    IN  /\ body > 0
        /\ \A i \in 1..body : SafeChar(value[i])

\* the string holds the path-traversal sequence ".."
HasTraversal(value) ==
    \E i \in 1..(Len(value) - 1) : value[i] = "." /\ value[i + 1] = "."

\* _validate_params(params): the exception it raises, or "True"
validate_params(params) ==
    IF request_count > RATE_LIMIT
    THEN "RuntimeError"
    ELSE IF \E key \in DOMAIN params :
                params[key].type = "str" /\ ~SAFE_PATH_match(params[key].chars)
    THEN "ValueError"
    ELSE "True"

\* the values a caller may put under a key of params
ParamValues ==
    {Str(<<"a", ".", "p", "d", "f">>), Str(<<".", ".", "/", "x">>),
     Str(<<"a", "/", ".", ".", "/", "b">>), Str(<<"a", ";", "b">>),
     Str(<<"a", " ", "b">>), Str(<< >>), NonStr}
GatewayParams == {[file_path |-> v, client_id |-> Str(<<"x", "1">>)] : v \in ParamValues}

\* validate_and_forward(target_server, method, params)
validate_and_forward(target_server, method, params) ==
    LET raised == validate_params(params)
    IN  /\ answers.forwarded + answers.invalid + answers.rate_limited < MaxRequests
        /\ IF raised = "RuntimeError"
           THEN /\ answers' = [answers EXCEPT !.rate_limited = @ + 1]
                /\ UNCHANGED <<request_count, forwarded>>
           ELSE IF raised = "ValueError"
           THEN /\ answers' = [answers EXCEPT !.invalid = @ + 1]
                /\ UNCHANGED <<request_count, forwarded>>
           ELSE /\ request_count' = request_count + 1
                /\ forwarded' = Append(forwarded, [target_server |-> target_server,
                                                    method |-> method, params |-> params])
                /\ answers' = [answers EXCEPT !.forwarded = @ + 1]
        /\ UNCHANGED <<wfvars, temp_mcp_client, tasks, fnvars, othervars>>

InitGateway ==
    /\ WorkflowIdle
    /\ tasks = << >>
    /\ GatewayIdle
    /\ ScoringIdle
    /\ OthersIdle

NextGateway ==
    \E params \in GatewayParams :
        validate_and_forward("document_processor", "extract_text", params)

SpecGateway == InitGateway /\ [][NextGateway]_vars

----------------------------------------------------------------------------
(* The match score of src/mcp_servers/notion_integration.py *)

\* str.lower() on the strings of the model
Lower(s) ==
    CASE s = "Acme" -> "acme"
      [] s = "ACME Inc" -> "acme inc"
      [] s = "Eng" -> "eng"
      [] s = "Mgr" -> "mgr"
      [] OTHER -> s

\* fuzz.ratio(a, b) of fuzzywuzzy on the strings of the model: 100 for equal
\* strings, 0 when one of them is empty, else 100 * 2 * matches / total
\* length, rounded
Ratio(a, b) ==
    IF a = b THEN 100
    ELSE IF a = "" \/ b = "" THEN 0
    ELSE IF {a, b} = {"acme", "acme inc"} THEN 67
    ELSE IF {a, b} = {"eng", "mgr"} THEN 33
    ELSE 0

\* a role as the scoring reads it; start_year is NoYear when the key is
\* missing or None
ScoredRole(company, title, start_year) ==
    [company |-> company, title |-> title, start_year |-> start_year]
ScoredRoles ==
    {ScoredRole(c, t, y) : c \in {"Acme", "acme", "ACME Inc", ""},
                           t \in {"Eng", "Mgr", ""},
                           y \in {NoYear, 0, 2019, 2020, 2021}}

\* role.get("start_year") taken as a condition
YearSet(role) == role.start_year \notin {NoYear, 0}

Abs(n) == IF n < 0 THEN -n ELSE n

\* (the years are not looked at)
date_score_no_bonus(r1, r2) == 0

\* the date overlap scoring
date_score(r1, r2) ==
    IF YearSet(r1) /\ YearSet(r2)
    THEN LET year_diff == Abs(r1.start_year - r2.start_year)
         IN  IF year_diff <= 1 THEN 100 - (year_diff * 10) ELSE 0
    ELSE 0

\* _calculate_role_match_score(role1, role2):
\* int(company_score * 0.4 + title_score * 0.4 + date_score * 0.2)
calculate_role_match_score(r1, r2) ==
    LET company_score == Ratio(Lower(r1.company), Lower(r2.company))
        title_score == Ratio(Lower(r1.title), Lower(r2.title))
    IN  (4 * company_score + 4 * title_score + 2 * date_score(r1, r2)) \div 10

\* the score is asked for the pair
CalculateScore ==
    /\ total_score = NoScore
    /\ total_score' = calculate_role_match_score(role1, role2)
    /\ UNCHANGED <<wfvars, temp_mcp_client, tasks, gwvars, role1, role2, fmvars, othervars>>

InitScoring ==
    /\ WorkflowIdle
    /\ tasks = << >>
    /\ GatewayIdle
    /\ role1 \in ScoredRoles
    /\ role2 \in ScoredRoles
    /\ total_score = NoScore
    /\ FindIdle
    /\ OthersIdle

NextScoring == CalculateScore

SpecScoring == InitScoring /\ [][NextScoring]_vars

----------------------------------------------------------------------------
(* find_role_matches of src/mcp_servers/notion_integration.py *)

FUZZY_MATCH_THRESHOLD == 80

\* an existing role as the record store returns it: the scored fields and
\* the id of its page
StoredRole(company, title, start_year, notion_id) ==
    [company |-> company, title |-> title, start_year |-> start_year,
     notion_id |-> notion_id]

FindExtractedSet ==
    {ScoredRole("Acme", "Eng", 2020), ScoredRole("acme", "Eng", 2021),
     ScoredRole("ACME Inc", "Eng", 2020), ScoredRole("Acme", "Mgr", NoYear)}

\* the pages of the store; no two of them share an id
FindStoredSet ==
    {StoredRole("Acme", "Eng", 2020, "page-1"), StoredRole("Acme", "Eng", NoYear, "page-2"),
     StoredRole("Acme", "Mgr", 2019, "page-3")}

\* the inner loop over existing_roles from position j on: a later role
\* replaces the best one only with a strictly higher score that reaches the
\* threshold
RECURSIVE BestMatch(_, _, _, _)
BestMatch(extracted_role, existing, j, best) ==
    IF j > Len(existing) THEN best
    ELSE LET match_score == calculate_role_match_score(extracted_role, existing[j])
         IN  IF match_score > best.best_score /\ match_score >= FUZZY_MATCH_THRESHOLD
             THEN BestMatch(extracted_role, existing, j + 1,
                            [best_score |-> match_score, best_match |-> existing[j],
                             found |-> TRUE])
             ELSE BestMatch(extracted_role, existing, j + 1, best)

NoBest == [best_score |-> 0, best_match |-> Absent, found |-> FALSE]

\* a value as a condition: None, "", 0 and a missing key are false
FieldSet(role, field) ==
    IF field = "start_year" THEN role.start_year \notin {NoYear, 0} ELSE role[field] # ""

\* _generate_role_diff on the fields the roles of the model carry
generate_role_diff(extracted, existing) ==
    LET changed == {f \in {"title", "start_year"} :
                       FieldSet(extracted, f) /\ extracted[f] # existing[f]}
    IN  [updates |-> [f \in {g \in changed : FieldSet(existing, g)} |->
                         [from |-> existing[f], to |-> extracted[f]]],
         additions |-> [f \in {g \in changed : ~FieldSet(existing, g)} |-> extracted[f]]]

\* the outer loop over extracted_roles from position i on
RECURSIVE FindLoop(_, _, _, _)
FindLoop(extracted, existing, i, result) ==
    IF i > Len(extracted) THEN result
    ELSE LET b == BestMatch(extracted[i], existing, 1, NoBest)
         IN  IF b.found
             THEN FindLoop(extracted, existing, i + 1,
                     [result EXCEPT
                        !.matches = Append(@,
                            [extracted_role |-> extracted[i],
                             existing_role |-> b.best_match,
                             match_score |-> b.best_score,
                             suggested_updates |->
                                 generate_role_diff(extracted[i], b.best_match)]),
                        !.match_summary.matched_count = @ + 1])
             ELSE FindLoop(extracted, existing, i + 1,
                     [result EXCEPT !.new_roles = Append(@, extracted[i]),
                                    !.match_summary.new_count = @ + 1])

\* find_role_matches(extracted_roles, existing_roles)
find_role_matches(extracted_roles, existing_roles) ==
    FindLoop(extracted_roles, existing_roles, 1,
             [matches |-> << >>, new_roles |-> << >>,
              match_summary |-> [total_extracted |-> Len(extracted_roles),
                                 total_existing |-> Len(existing_roles),
                                 matched_count |-> 0, new_count |-> 0]])

\* the tool is called with the two lists
FindRoleMatches ==
    /\ find_result = NoResult
    /\ find_result' = find_role_matches(find_extracted_roles, find_existing_roles)
    /\ UNCHANGED <<wfvars, temp_mcp_client, tasks, gwvars, role1, role2, total_score,
                   find_extracted_roles, find_existing_roles, othervars>>

InitFind ==
    /\ WorkflowIdle
    /\ tasks = << >>
    /\ GatewayIdle
    /\ role1 = Absent /\ role2 = Absent /\ total_score = NoScore
    /\ find_extracted_roles \in SeqsUpTo(FindExtractedSet, MaxFindExtracted)
    /\ find_existing_roles \in
           {e \in SeqsUpTo(FindStoredSet, MaxFindExisting) :
               \A i, j \in DOMAIN e : i # j => e[i].notion_id # e[j].notion_id}
    /\ find_result = NoResult
    /\ OthersIdle

NextFind == FindRoleMatches

SpecFind == InitFind /\ [][NextFind]_vars

----------------------------------------------------------------------------
(* Properties *)

Last(seq) == seq[Len(seq)]
Ran(node) == \E i \in DOMAIN trace : trace[i].node = node
IsValidation(c) == c.server = "security_gateway"
IsTarget(c) == c.server # "security_gateway"
ValidationOf(c, tool) == IsValidation(c) /\ c.target[2] = tool

\* the terminal statuses of the state table
IsTerminal(status) ==
    \/ status \in {"SAVE_COMPLETED", "SAVE_COMPLETED_WITH_ERRORS", "SAVE_FAILED",
                   "REJECTED", "REVIEW_NOT_NEEDED"}
    \/ HasERROR(status)

\* C1: when the diff step produced at least one proposed change, run returns
\* with status PENDING_REVIEW and has made no record-store create call and no
\* citation call.
C1_PausesAtReview ==
    (pc = "done" /\ st.proposed_changes # << >>)
        => /\ st.review_status = "PENDING_REVIEW"
           /\ \A i \in DOMAIN calls : ~IsCreate(calls[i]) /\ ~IsCitation(calls[i])

\* C2: after the review step save_data runs if and only if the status is
\* APPROVED and approved_changes is non-empty; every other status goes to
\* end_workflow with no store call; error_log grows at the branch only for a
\* status that is none of APPROVED, REJECTED, REVIEW_NOT_NEEDED (and does grow
\* for a status the branch does not know).
C2_SaveIffApprovedNonEmpty ==
    /\ (trace # << >> /\ Last(trace).node = "decide_after_review")
           => /\ pc \in {"save_data", "end_workflow"}
              /\ pc = "save_data"
                     <=> (pre.review_status = "APPROVED" /\ pre.approved_changes # << >>)
              /\ st.review_status = pre.review_status
              /\ st.error_log # pre.error_log
                     => pre.review_status \notin {"APPROVED", "REJECTED", "REVIEW_NOT_NEEDED"}
              /\ pre.review_status \notin {"APPROVED", "REJECTED", "REVIEW_NOT_NEEDED",
                                           "REVIEW_SKIPPED_NO_PROPOSALS"}
                     => Len(st.error_log) = Len(pre.error_log) + 1
    /\ \A i \in DOMAIN trace :
           /\ trace[i].node = "save_data" => (i > 1 /\ trace[i - 1].route = "save_data")
           /\ trace[i].route = "end_workflow"
                  => /\ CreateCount(calls) = 0
                     /\ \A j \in DOMAIN trace : trace[j].node # "save_data"

C2_Witness ==
    /\ trace # << >>
    /\ Last(trace).node = "decide_after_review"
    /\ pre.review_status = "APPROVED"
    /\ pre.approved_changes # << >>
    /\ pc = "save_data"

\* C3: run() invoked again with rerun_input_data for a record that already
\* reached a terminal status returns a record with the same status and the
\* same error_log length, and makes no further store create call.
C3_RerunOfTerminalIsNoOp ==
    (pc = "done" /\ input.is_review_run /\ IsTerminal(prev.review_status))
        => /\ st.review_status = prev.review_status
           /\ Len(st.error_log) = prev.loglen
           /\ creates = prev.creates

\* C4: workflow_id and document_id, once assigned, keep their values in every
\* later state of the record, also in the record of a run() invoked with
\* rerun_input_data for the record of the previous run.
C4_IdsStable ==
    /\ (pc # "idle" /\ trace # << >>)
           => /\ st.workflow_id = pre.workflow_id
              /\ pre.document_id # "" => st.document_id = pre.document_id
    /\ (pc # "idle" /\ input.is_review_run)
           => /\ st.workflow_id = prev.workflow_id
              /\ st.document_id # "" => st.document_id = prev.document_id

\* C5: after the matching step every element of extracted_roles is the
\* extracted side of exactly one entry of matched_pairs or is exactly one
\* entry of new_roles, never both and never neither.
C5_Partition ==
    Ran("match_roles")
        => \A i \in DOMAIN st.extracted_roles :
               Cardinality({k \in DOMAIN st.matched_pairs :
                                st.matched_pairs[k].extracted.oid = st.extracted_roles[i].oid})
                 + Cardinality({k \in DOMAIN st.new_roles :
                                    st.new_roles[k].oid = st.extracted_roles[i].oid})
                 = 1

\* C6: no existing role is the existing side of more than one entry of
\* matched_pairs.
C6_NoDoubleMatch ==
    \A k1, k2 \in DOMAIN st.matched_pairs :
        k1 # k2 => st.matched_pairs[k1].existing.oid # st.matched_pairs[k2].existing.oid

\* an extracted role equal, after normalisation, to an existing role that an
\* earlier extracted role had taken
C6_Witness ==
    /\ Ran("match_roles")
    /\ \E k \in DOMAIN st.matched_pairs, n \in DOMAIN st.new_roles :
           /\ st.new_roles[n].oid > st.matched_pairs[k].extracted.oid
           /\ Norm(st.new_roles[n].company) = Norm(st.matched_pairs[k].existing.company)
           /\ Norm(st.new_roles[n].title) = Norm(st.matched_pairs[k].existing.title)

\* every target call comes right after a successful validation call for the
\* same server, tool and params; a failed validation is not followed by its
\* target; no call is made twice for one invocation
ValidatedBeforeCalled ==
    /\ \A i \in DOMAIN calls :
           IsTarget(calls[i])
               => /\ i > 1
                  /\ calls[i - 1] = ValidationCall(calls[i].server, calls[i].tool,
                                                   calls[i].params, TRUE)
    /\ \A i \in DOMAIN calls :
           (IsValidation(calls[i]) /\ ~calls[i].ok)
               => (i = Len(calls) \/ IsValidation(calls[i + 1]))
    /\ Cardinality({i \in DOMAIN calls : IsValidation(calls[i])}) = invocations
    /\ Cardinality({i \in DOMAIN calls : IsTarget(calls[i])}) <= invocations

\* C7 as stated: every tool invocation is validated by the security gateway
\* before its target is called, and the target is not called when the
\* validation fails.
C7_AlwaysValidated == ValidatedBeforeCalled

\* C7 amended: the same, when mcp_config has a security_gateway entry; a
\* rejected or failed validation returns a failure response.
C7_ValidatedWhenConfigured ==
    has_sg
        => /\ ValidatedBeforeCalled
           /\ \A sg \in SgOutcomes \ {SgOk}, tgt \in {AddOk, ToolFailure} :
                 LET r == call_mcp_tool("notion_integration", "add_professional_role",
                                        [role_data |-> "r"], sg, tgt)
                 IN  /\ StatusStartsWithFailure(r.resp)
                     /\ \A i \in DOMAIN r.calls : IsValidation(r.calls[i])

C7_Witness ==
    /\ has_sg
    /\ pc = "done"
    /\ \E i, j \in DOMAIN calls :
           /\ IsValidation(calls[i]) /\ ~calls[i].ok
           /\ IsTarget(calls[j]) /\ calls[j].ok

\* the classification step failed or left an unsupported or unknown type
ClassifyFailed ==
    \E i \in DOMAIN trace :
        /\ trace[i].node = "classify_document"
        /\ \/ trace[i].status = "ERROR"
           \/ st.document_type \in {Absent, "UNSUPPORTED", "UNKNOWN"}

\* C8: when the classification step failed or left an unsupported or unknown
\* document type, the only calls of the run are those of the extract_text
\* invocation: process_resume, the store and the citation tracker are never
\* called, nor the gateway for them.
C8_FailClosed ==
    ClassifyFailed
        => \A i \in DOMAIN calls :
               \/ calls[i] = TargetCall("document_processor", "extract_text",
                                        calls[i].params, calls[i].ok)
               \/ ValidationOf(calls[i], "extract_text")

C8_Witness ==
    /\ pc = "done"
    /\ ClassifyFailed
    /\ st.raw_content = "resume text"
    /\ Len(calls) >= 1

\* C9: when the classification step failed, the record run returns has a
\* status containing ERROR and exactly one error_log entry, and no step after
\* the classification step left another status.
C9_ClassifyFailureIsFinal ==
    \A i \in DOMAIN trace :
        (pc = "done" /\ trace[i].node = "classify_document" /\ trace[i].status = "ERROR")
            => /\ HasERROR(st.review_status)
               /\ Len(st.error_log) = 1
               /\ trace[i].loglen = 1
               /\ \A j \in DOMAIN trace : j > i => HasERROR(trace[j].status)

\* C10: when the gateway rejects the process_resume call, or the call to the
\* gateway raises, the extraction step leaves an ERROR status and has appended
\* the rejection to error_log.
C10_GatewayRejectionIsFatal ==
    \A i \in DOMAIN trace :
        (/\ trace[i].node = "extract_information"
         /\ \E k \in DOMAIN calls : ValidationOf(calls[k], "process_resume") /\ ~calls[k].ok)
            => /\ HasERROR(trace[i].status)
               /\ trace[i].loglen = trace[i - 1].loglen + 1

\* the trace entry of a node of this run (0 when it has not run)
EntryOf(node) ==
    IF Ran(node) THEN CHOOSE i \in DOMAIN trace : trace[i].node = node ELSE 0

\* error_log length when the i-th executed node was entered
LogLenBefore(i) == IF i = 1 THEN 0 ELSE trace[i - 1].loglen

\* the invocations of a tool that failed: a validation that did not pass or a
\* target call that did not answer success
FailedInvocations(tool) ==
    Cardinality({k \in DOMAIN calls :
                    /\ ~calls[k].ok
                    /\ \/ ValidationOf(calls[k], tool)
                       \/ (IsTarget(calls[k]) /\ calls[k].tool = tool)})

\* the successful add_professional_role calls of this run
SavedRoles == Cardinality({k \in DOMAIN calls : IsCreate(calls[k]) /\ calls[k].ok})

\* C11: when the record-store query fails in any way, the matching step
\* appends the failure to error_log, leaves existing_roles empty, puts every
\* extracted role in new_roles, and the graph goes on to generate_diff.
C11_QueryFailureAllNew ==
    (Ran("match_roles") /\ FailedInvocations("query_existing_roles") > 0)
        => /\ trace[EntryOf("match_roles")].loglen
                  = LogLenBefore(EntryOf("match_roles")) + 1
           /\ st.existing_roles = << >>
           /\ st.matched_pairs = << >>
           /\ st.new_roles = st.extracted_roles
           /\ Last(trace).node = "match_roles" => pc = "generate_diff"

\* the matching step assigned ERROR_NOTION_QUERY before its loop (the only
\* path that logs and still ends in MATCHING_COMPLETED)
SetERRORInside(i) ==
    /\ trace[i].node = "match_roles"
    /\ trace[i].status = "MATCHING_COMPLETED"
    /\ trace[i].loglen > LogLenBefore(i)

C13_SaveStatusByCount ==
    LET attempted == Len(RolesToSave(st.approved_changes))
        status == trace[EntryOf("save_data")].status
    IN  (Ran("save_data") /\ attempted >= 1)
            => /\ status = "SAVE_COMPLETED" <=> SavedRoles = attempted
               /\ status = "SAVE_COMPLETED_WITH_ERRORS"
                      <=> (SavedRoles > 0 /\ SavedRoles < attempted)
               /\ status = "SAVE_FAILED" <=> SavedRoles = 0

C13_Witness ==
    /\ Ran("save_data")
    /\ Len(RolesToSave(st.approved_changes)) = 2
    /\ SavedRoles = 1

AllCreatesSucceeded ==
    /\ Ran("save_data")
    /\ Len(RolesToSave(st.approved_changes)) >= 1
    /\ SavedRoles = Len(RolesToSave(st.approved_changes))

\* C15 as stated: if N >= 1 NEW_ROLE items are approved and the create call
\* succeeds for all N, the status after the save step is SAVE_COMPLETED and
\* error_log is as long as before the save step.
C15_AllSavedNoNewEntries ==
    AllCreatesSucceeded
        => /\ trace[EntryOf("save_data")].status = "SAVE_COMPLETED"
           /\ trace[EntryOf("save_data")].loglen = LogLenBefore(EntryOf("save_data"))

\* C15 amended: if N >= 1 NEW_ROLE items are approved and the create call
\* succeeds for all N, the status after the save step is SAVE_COMPLETED;
\* error_log is as long as before the save step when every citation call
\* succeeded too, and one entry longer per failed citation call otherwise.
C15_AllSavedEntriesOnlyForCitations ==
    AllCreatesSucceeded
        => /\ trace[EntryOf("save_data")].status = "SAVE_COMPLETED"
           /\ trace[EntryOf("save_data")].loglen
                  = LogLenBefore(EntryOf("save_data")) + FailedInvocations("track_extraction")

C15_Witness ==
    /\ AllCreatesSucceeded
    /\ Cardinality({k \in DOMAIN calls : IsCitation(calls[k]) /\ calls[k].ok}) >= 1
    /\ FailedInvocations("track_extraction") = 0

\* C16: every failed citation call adds one entry to error_log (as every
\* failed create does), and the status of the save step is decided by the
\* create calls alone: a role whose create succeeded counts as saved whatever
\* its citation calls answered.
C16_CitationFailureKeepsSave ==
    LET attempted == Len(RolesToSave(pre.approved_changes))
        failed == FailedInvocations("add_professional_role")
    IN  (trace # << >> /\ Last(trace).node = "save_data" /\ attempted >= 1)
            => /\ Len(st.error_log)
                      = Len(pre.error_log) + failed + FailedInvocations("track_extraction")
               /\ SavedRoles = attempted - failed
               /\ st.review_status = "SAVE_COMPLETED" <=> failed = 0
               /\ st.review_status = "SAVE_COMPLETED_WITH_ERRORS"
                      <=> (failed > 0 /\ failed < attempted)
               /\ st.review_status = "SAVE_FAILED" <=> failed = attempted

C16_Witness ==
    /\ trace # << >>
    /\ Last(trace).node = "save_data"
    /\ FailedInvocations("track_extraction") >= 1
    /\ st.review_status = "SAVE_COMPLETED"

\* one role with one achievement extracted with no error reported, no
\* existing role, every call answered success, the decision approves new roles
OneNewRoleAllOk ==
    /\ pc = "done"
    /\ input.simulated_review_outcome = "APPROVE_ALL_NEW"
    /\ Len(st.extracted_roles) = 1
    /\ Len(st.extracted_roles[1].achievements) = 1
    /\ st.existing_roles = << >>
    /\ trace[EntryOf("extract_information")].loglen = 0
    /\ \A k \in DOMAIN calls : calls[k].ok

\* C17: in such a run exactly one NEW_ROLE is proposed and approved, the
\* create call is made once, the citation call is made once with the page id
\* the create returned and the achievement text, and the run ends
\* SAVE_COMPLETED with an empty error_log.
C17_OneRoleOneCreateOneCitation ==
    OneNewRoleAllOk
        => /\ st.proposed_changes
                  = <<[type |-> "NEW_ROLE", data |-> st.extracted_roles[1]]>>
           /\ st.approved_changes = st.proposed_changes
           /\ CreateCount(calls) = 1
           /\ Cardinality({k \in DOMAIN calls : IsCitation(calls[k])}) = 1
           /\ \A k \in DOMAIN calls :
                  IsCitation(calls[k])
                      => /\ calls[k].params.notion_page_id = "p_new"
                         /\ calls[k].params.original_extracted_text
                                = st.extracted_roles[1].achievements[1]
           /\ st.review_status = "SAVE_COMPLETED"
           /\ st.error_log = << >>

C17_Witness == OneNewRoleAllOk /\ has_sg

\* C18: with a non-empty proposed_changes, a reject-all decision leaves
\* rejected_changes equal to proposed_changes, approved_changes empty and
\* status REJECTED, and the run makes no store create and no citation call.
C18_RejectAll ==
    (Ran("human_review") /\ input.simulated_review_outcome = "REJECT_ALL"
         /\ st.proposed_changes # << >>)
        => /\ st.rejected_changes = st.proposed_changes
           /\ st.approved_changes = << >>
           /\ trace[EntryOf("human_review")].status = "REJECTED"
           /\ \A k \in DOMAIN calls : ~IsCreate(calls[k]) /\ ~IsCitation(calls[k])

\* C19: with a non-empty proposed_changes, a decision that is none of the
\* recognized outcomes is logged by the review step, approved_changes stays
\* empty, and the run reaches end_workflow with no store create and no
\* citation call.
C19_UnknownOutcomeApprovesNothing ==
    (Ran("human_review") /\ input.is_review_run
         /\ input.simulated_review_outcome
                \notin {"APPROVE_ALL", "APPROVE_ALL_NEW", "REJECT_ALL"}
         /\ st.proposed_changes # << >>)
        => /\ trace[EntryOf("human_review")].loglen
                  > LogLenBefore(EntryOf("human_review"))
           /\ st.approved_changes = << >>
           /\ ~Ran("save_data")
           /\ \A k \in DOMAIN calls : ~IsCreate(calls[k]) /\ ~IsCitation(calls[k])

OneRoleMatchesOneExisting ==
    /\ Len(st.extracted_roles) = 1
    /\ Len(st.existing_roles) = 1
    /\ st.extracted_roles[1].company # ""
    /\ st.extracted_roles[1].title # ""
    /\ st.extracted_roles[1].company = st.existing_roles[1].company
    /\ st.extracted_roles[1].title = st.existing_roles[1].title
    /\ \A k \in DOMAIN calls : calls[k].ok
    /\ Ran("extract_information")
    /\ trace[EntryOf("extract_information")].loglen = 0

\* C21: when the only extracted role has the same company and title as one
\* existing role, the run ends with exactly one entry in matched_pairs, no
\* new_roles, an empty error_log and final status REVIEW_NOT_NEEDED.
C21_MatchedRoleNoReviewNeeded ==
    (pc = "done" /\ OneRoleMatchesOneExisting)
        => /\ Len(st.matched_pairs) = 1
           /\ st.new_roles = << >>
           /\ st.error_log = << >>
           /\ st.review_status = "REVIEW_NOT_NEEDED"

\* C22: after the review step, whatever the decision, approved_changes and
\* rejected_changes have no item in common and every item of either list is
\* an item of proposed_changes.
C22_ReviewListsDisjointWithinProposed ==
    Ran("human_review")
        => /\ Range(st.approved_changes) \cap Range(st.rejected_changes) = {}
           /\ Range(st.approved_changes) \cup Range(st.rejected_changes)
                  \subseteq Range(st.proposed_changes)

C22_Witness ==
    /\ Ran("human_review")
    /\ st.initial_input_data = "APPROVE_ALL"
    /\ Len(st.approved_changes) = 2
    /\ st.approved_changes[1] # st.approved_changes[2]

\* a is a prefix of b
IsPrefix(a, b) == Len(a) <= Len(b) /\ SubSeq(b, 1, Len(a)) = a

\* C23: across every step of a run error_log only grows: the log after a step
\* has the log before that step as a prefix (no step removes, reorders or
\* clears entries). That a record with a non-empty error_log can still reach
\* SAVE_COMPLETED is the reachability of C23_Witness.
C23_ErrorLogOnlyGrows ==
    /\ IsPrefix(pre.error_log, st.error_log)
    /\ \A i \in DOMAIN trace : LogLenBefore(i) <= trace[i].loglen
    /\ trace # << >> => Last(trace).loglen = Len(st.error_log)

C23_Witness ==
    /\ pc = "done"
    /\ st.review_status = "SAVE_COMPLETED"
    /\ st.error_log # << >>
    /\ Len(pre.error_log) > 0

\* every key of the record run() builds, with the identifiers, the path and
\* a status filled in
FullyPopulated(s) ==
    /\ DOMAIN s = DOMAIN InitialState(NoInput, 0)
    /\ s.workflow_id # 0
    /\ s.document_id \notin {"", Absent}
    /\ s.original_file_path = input.original_file_path
    /\ s.review_status \notin {"", Absent}

\* C24: for any non-empty source path and any behaviour of the external tools
\* (error responses, malformed responses, raised exceptions), run never
\* propagates an exception to the caller, and the record it returns is fully
\* populated and went through end_workflow.
C24_NoExceptionReachesCaller ==
    (runs > 0 /\ ~PathMissing(input.original_file_path))
        => /\ pc # "raised"
           /\ pc = "done" => FullyPopulated(st) /\ Last(trace).node = "end_workflow"

C24_Witness ==
    /\ pc = "done"
    /\ ~PathMissing(input.original_file_path)
    /\ st.error_log # << >>
    /\ st.error_log[1] = "Exception calling document_processor.extract_text: connection lost"
    /\ FullyPopulated(st)

\* C25: run called with an empty source path returns at once a record with
\* status ERROR and a non-empty error_log, without executing any workflow
\* step and without making any tool call.
C25_EmptyPathFailsFast ==
    (runs > 0 /\ input.original_file_path = "")
        => /\ pc = "done"
           /\ st.review_status = "ERROR"
           /\ st.error_log # << >>
           /\ trace = << >>
           /\ calls = << >>
           /\ invocations = 0
           /\ temp_mcp_client = Absent

C25_Witness ==
    /\ pc = "done"
    /\ runs > 0
    /\ input.original_file_path = ""
    /\ st.error_log = <<"Critical: original_file_path is required.">>

\* C26: concurrent run invocations for distinct documents share no mutable
\* engine state: under every interleaving at their await points each
\* invocation completes (none raises) and returns its own record, its nodes
\* having called the tools with its own client.
C26_ConcurrentRunsIndependent ==
    \A i \in DOMAIN tasks :
        /\ tasks[i].pc # "raised"
        /\ tasks[i].pc = "returned"
               => /\ tasks[i].document_id = DocIdOf(TaskPath(i))
                  /\ \A k \in DOMAIN tasks[i].used : tasks[i].used[k] = TaskClient(i)

\* C27: the gateway's validation rejects, without forwarding to the target,
\* every call whose params contain a string value holding a path-traversal
\* sequence ("..").
C27_TraversalNeverForwarded ==
    \A k \in DOMAIN forwarded :
        \A key \in DOMAIN forwarded[k].params :
            forwarded[k].params[key].type = "str"
                => ~HasTraversal(forwarded[k].params[key].chars)

\* C28: the gateway's per-process rate limiter admits at most RATE_LIMIT (5)
\* validate_and_forward requests in the life of the process; no request beyond
\* that is forwarded to the target.
C28_AtMostRateLimitAdmitted ==
    /\ Len(forwarded) <= RATE_LIMIT
    /\ answers.forwarded <= RATE_LIMIT

\* the two start years are numbers within one year of each other
YearsWithinOne(r1, r2) ==
    /\ r1.start_year # NoYear
    /\ r2.start_year # NoYear
    /\ Abs(r1.start_year - r2.start_year) <= 1

\* C29: for any two roles with identical company and title strings and start
\* years within one year of each other, the match score computed for the pair
\* is at least 80 on the 0-100 scale (it is 100 less twice the difference of
\* the years when both years are set, and within 0..100 for every pair).
C29_IdenticalRolesScoreAtLeast80 ==
    total_score # NoScore
        => /\ total_score \in 0..100
           /\ (role1.company = role2.company /\ role1.title = role2.title
                   /\ YearsWithinOne(role1, role2))
                  => /\ total_score >= 80
                     /\ (YearSet(role1) /\ YearSet(role2))
                            => total_score
                                   = 100 - 2 * Abs(role1.start_year - role2.start_year)

C29_Witness ==
    /\ total_score = 98
    /\ role1 = ScoredRole("Acme", "Eng", 2019)
    /\ role2 = ScoredRole("Acme", "Eng", 2020)

\* the existing roles (by place in the list) paired with an extracted role
\* that comes before the i-th
PairedBefore(i) ==
    {st.matched_pairs[k].existing.oid :
        k \in {n \in DOMAIN st.matched_pairs : st.matched_pairs[n].extracted.oid < i}}

\* the existing roles not yet paired when the i-th extracted role is looked
\* at, with the same company and title after trimming and lower-casing
Candidates(i) ==
    {j \in DOMAIN st.existing_roles :
        /\ j \notin PairedBefore(i)
        /\ Norm(st.existing_roles[j].company) = Norm(st.extracted_roles[i].company)
        /\ Norm(st.existing_roles[j].title) = Norm(st.extracted_roles[i].title)}

\* C30: in the matching step, an extracted role with non-empty company and
\* title is placed in new_roles only if no not-yet-matched existing role has
\* the same company and title after trimming and lower-casing; otherwise it
\* is paired with the first such existing role in iteration order.
C30_NewOnlyWhenNoUnmatchedEqual ==
    (Ran("match_roles") /\ Last(trace).status = "MATCHING_COMPLETED")
        => \A i \in DOMAIN st.extracted_roles :
               (Norm(st.extracted_roles[i].company) # ""
                    /\ Norm(st.extracted_roles[i].title) # "")
                   => /\ (\E k \in DOMAIN st.new_roles : st.new_roles[k].oid = i)
                             => Candidates(i) = {}
                      /\ Candidates(i) # {}
                             => \E k \in DOMAIN st.matched_pairs :
                                    /\ st.matched_pairs[k].extracted.oid = i
                                    /\ st.matched_pairs[k].existing.oid
                                           = CHOOSE j \in Candidates(i) :
                                                 \A h \in Candidates(i) : j <= h

\* C31: in the result of find_role_matches no existing role appears in more
\* than one entry of matches (an existing role matched to an earlier
\* extracted role is not matched again).
C31_NoExistingMatchedTwice ==
    \A i, j \in DOMAIN find_result.matches :
        i # j => find_result.matches[i].existing_role.notion_id
                     # find_result.matches[j].existing_role.notion_id

\* C32: the diff step produces proposed_changes made of one NEW_ROLE item per
\* element of new_roles, in order, followed by one MATCHED_ROLE item per
\* element of matched_pairs, in order, carrying the extracted and the
\* existing role; its length is |new_roles| + |matched_pairs|, and the status
\* becomes PENDING_REVIEW if the list is non-empty and REVIEW_NOT_NEEDED
\* otherwise.
C32_DiffListsNewThenMatched ==
    (trace # << >> /\ Last(trace).node = "generate_diff")
        => LET n == Len(pre.new_roles)
               m == Len(pre.matched_pairs)
           IN  /\ Len(st.proposed_changes) = n + m
               /\ \A i \in 1..n :
                      /\ st.proposed_changes[i].type = "NEW_ROLE"
                      /\ st.proposed_changes[i].data = pre.new_roles[i]
               /\ \A i \in 1..m :
                      /\ st.proposed_changes[n + i].type = "MATCHED_ROLE"
                      /\ st.proposed_changes[n + i].extracted_data
                             = pre.matched_pairs[i].extracted
                      /\ st.proposed_changes[n + i].existing_data
                             = pre.matched_pairs[i].existing
               /\ st.review_status
                      = IF n + m > 0 THEN "PENDING_REVIEW" ELSE "REVIEW_NOT_NEEDED"
               /\ st.new_roles = pre.new_roles
               /\ st.matched_pairs = pre.matched_pairs

C32_Witness ==
    /\ trace # << >>
    /\ Last(trace).node = "generate_diff"
    /\ Len(pre.new_roles) = 1
    /\ Len(pre.matched_pairs) = 1
    /\ Len(st.proposed_changes) = 2
    /\ st.review_status = "PENDING_REVIEW"

\* the first call of each invocation of a tool by the save step: the
\* validation call where a gateway is configured, else the target call
Attempts(tool) ==
    {k \in DOMAIN calls :
        IF has_sg THEN ValidationOf(calls[k], tool)
        ELSE IsTarget(calls[k]) /\ calls[k].tool = tool}
\* the create invoked at position k succeeded
Created(k) ==
    \E j \in DOMAIN calls :
        /\ j = (IF has_sg THEN k + 1 ELSE k)
        /\ IsCreate(calls[j])
        /\ calls[j].ok
\* the citation invocations made for the role whose create was invoked at k
CitesOf(k) ==
    {j \in Attempts("track_extraction") :
        /\ k < j
        /\ \A n \in Attempts("add_professional_role") : ~(k < n /\ n < j)}

\* C33: for every role whose store create succeeded the citation operation is
\* called once for every achievement string of the role, each call carrying
\* the source document id and the destination field name, and it is never
\* called for a role whose create did not succeed.
C33_OneCitationPerAchievement ==
    (trace # << >> /\ Last(trace).node = "save_data")
        => \A k \in Attempts("add_professional_role") :
               LET achievements == calls[k].params.role_data.achievements
               IN  IF Created(k)
                   THEN /\ Cardinality(CitesOf(k)) = Len(achievements)
                        /\ \A i \in DOMAIN achievements :
                               \E j \in CitesOf(k) :
                                   /\ calls[j].params.original_extracted_text = achievements[i]
                                   /\ calls[j].params.source_document_fingerprint
                                          = st.document_id
                                   /\ calls[j].params.notion_field_name = "achievements"
                   ELSE CitesOf(k) = {}

\* a role with neither a company nor a title
BothMissing(role) == Norm(role.company) = "" /\ Norm(role.title) = ""
\* an item of the parsed list that is a role with a company or a title
KeptItem(item) == IsRoleDict(item) /\ ~BothMissing(item)
\* a role of the record without the tag of the model
Untagged(role) == Role(role.company, role.title, role.achievements)

\* C34: an extracted role missing both company and title is discarded at the
\* extraction step and never appears in extracted_roles, new_roles,
\* proposed_changes or a store create call; every role having at least one of
\* the two is retained.
C34_RolesWithoutCompanyAndTitleDiscarded ==
    /\ \A i \in DOMAIN st.extracted_roles : ~BothMissing(st.extracted_roles[i])
    /\ \A i \in DOMAIN st.new_roles : ~BothMissing(st.new_roles[i])
    /\ \A i \in DOMAIN st.proposed_changes :
           IF st.proposed_changes[i].type = "NEW_ROLE"
           THEN ~BothMissing(st.proposed_changes[i].data)
           ELSE ~BothMissing(st.proposed_changes[i].extracted_data)
    /\ \A k \in DOMAIN calls : IsCreate(calls[k]) => ~BothMissing(calls[k].params.role_data)
    /\ (Ran("extract_information")
            /\ ~HasERROR(trace[EntryOf("extract_information")].status))
           => LET kept == SelectSeq(parsed_llm_output, KeptItem)
              IN  /\ Len(st.extracted_roles) = Len(kept)
                  /\ \A i \in DOMAIN kept : Untagged(st.extracted_roles[i]) = kept[i]

\* C35: the review outcome the caller selects in run's input
\* (simulated_review_outcome: APPROVE_ALL_NEW, APPROVE_ALL or REJECT_ALL) is
\* the decision the review step applies in that run: with something
\* proposed, the status and the lists the review step leaves are those of
\* the selected outcome.
C35_SelectedOutcomeDecidesReview ==
    (Ran("human_review") /\ ~input.is_review_run /\ st.proposed_changes # << >>)
        => LET selected == input.simulated_review_outcome
               status == trace[EntryOf("human_review")].status
           IN  /\ selected = "APPROVE_ALL_NEW"
                      => /\ status = "APPROVED"
                         /\ st.approved_changes = NewRoleItems(st.proposed_changes)
                         /\ st.rejected_changes = << >>
               /\ selected = "APPROVE_ALL"
                      => /\ status = "APPROVED"
                         /\ st.approved_changes = st.proposed_changes
                         /\ st.rejected_changes = << >>
               /\ selected = "REJECT_ALL"
                      => /\ status = "REJECTED"
                         /\ st.approved_changes = << >>
                         /\ st.rejected_changes = st.proposed_changes

NotPending == latest_workflow_run # NoRun /\ latest_workflow_run.review_status # "PENDING_REVIEW"

\* C37: a review decision can be submitted only for a record whose status is
\* PENDING_REVIEW: for a record in any other status the tab offers no review
\* action and no decision is submitted, and no step starts a run or changes
\* the stored record.
C37_ReviewOnlyWhenPending ==
    /\ [](NotPending => /\ ~ui.actions_shown
                        /\ ui.submitted = Absent
                        /\ ~ui.triggered
                        /\ pc = "idle")
    /\ [][NotPending => /\ latest_workflow_run' = latest_workflow_run
                        /\ runs' = runs
                        /\ pc' = "idle"
                        /\ creates' = creates]_vars

C37_Witness ==
    /\ ui.rendered
    /\ latest_workflow_run # NoRun
    /\ latest_workflow_run.review_status = "SAVE_COMPLETED"
    /\ latest_workflow_run.proposed_changes # << >>
    /\ latest_workflow_run.initial_input_data = UploadInput
    /\ ~ui.actions_shown

\* ---------------------------------------------------------------------------
\* The nine-step workflow of resume_pipeline.py
\* ---------------------------------------------------------------------------

\* the nodes _build_workflow adds, in the order of its chain of edges
NineSteps == <<"validate_security", "extract_text", "extract_roles", "query_existing",
               "match_roles", "generate_diff", "human_review", "apply_changes", "finalize">>

\* position of a node in that chain (0: not a node)
StepIndex(name) ==
    IF \E i \in DOMAIN NineSteps : NineSteps[i] = name
    THEN CHOOSE i \in DOMAIN NineSteps : NineSteps[i] = name
    ELSE 0

\* add_edge: the node that follows `name`; nothing follows finalize
NextStep(name) ==
    IF StepIndex(name) < Len(NineSteps) THEN NineSteps[StepIndex(name) + 1] ELSE "END"

PipelineClients == {"Ada", "Bo"}
PipelineDocTypes == {"pdf", "docx", "txt"}

\* the state dictionary the upload page prepares for the workflow
initial_state(client_name, document_type) ==
    [client_name |-> client_name, document_type |-> document_type,
     review_status |-> "not_started", current_step |-> "",
     completed_steps |-> << >>, error_log |-> << >>]

\* validate_document_security; mcp_ok: _initialize_mcp_client did not raise
validate_document_security(state, mcp_ok) ==
    IF mcp_ok
    THEN [state EXCEPT !.current_step = "validate_security",
                       !.completed_steps = Append(@, "validate_security")]
    ELSE [state EXCEPT !.current_step = "validate_security",
                       !.error_log = Append(@, "Security validation exception")]

extract_document_text(state) ==
    [state EXCEPT !.current_step = "extract_text",
                  !.completed_steps = Append(@, "extract_text")]

extract_professional_roles(state) ==
    [state EXCEPT !.current_step = "extract_roles",
                  !.completed_steps = Append(@, "extract_roles")]

query_existing_roles(state) ==
    [state EXCEPT !.current_step = "query_existing",
                  !.completed_steps = Append(@, "query_existing")]

match_and_compare_roles(state) ==
    [state EXCEPT !.current_step = "match_roles",
                  !.completed_steps = Append(@, "match_roles")]

generate_changes_diff(state) ==
    [state EXCEPT !.current_step = "generate_diff",
                  !.review_status = "pending",
                  !.completed_steps = Append(@, "generate_diff")]

human_review_interrupt(state) ==
    [state EXCEPT !.current_step = "human_review"]

apply_approved_changes(state) ==
    [state EXCEPT !.current_step = "apply_changes",
                  !.completed_steps = Append(@, "apply_changes")]

finalize_processing(state) ==
    [state EXCEPT !.current_step = "finalize",
                  !.completed_steps = Append(@, "finalize")]

\* the nine-step workflow touches nothing of the other components
PipelineOnly == UNCHANGED <<wfvars, temp_mcp_client, tasks, gwvars, fnvars, dpvars, uivars>>

ValidateSecurityStep ==
    /\ rp_pc = "validate_security"
    /\ \E mcp_ok \in BOOLEAN : rp_state' = validate_document_security(rp_state, mcp_ok)
    /\ rp_pc' = NextStep("validate_security")
    /\ PipelineOnly

ExtractTextStep ==
    /\ rp_pc = "extract_text"
    /\ rp_state' = extract_document_text(rp_state)
    /\ rp_pc' = NextStep("extract_text")
    /\ PipelineOnly

ExtractRolesStep ==
    /\ rp_pc = "extract_roles"
    /\ rp_state' = extract_professional_roles(rp_state)
    /\ rp_pc' = NextStep("extract_roles")
    /\ PipelineOnly

QueryExistingStep ==
    /\ rp_pc = "query_existing"
    /\ rp_state' = query_existing_roles(rp_state)
    /\ rp_pc' = NextStep("query_existing")
    /\ PipelineOnly

MatchRolesStep ==
    /\ rp_pc = "match_roles"
    /\ rp_state' = match_and_compare_roles(rp_state)
    /\ rp_pc' = NextStep("match_roles")
    /\ PipelineOnly

GenerateDiffStep ==
    /\ rp_pc = "generate_diff"
    /\ rp_state' = generate_changes_diff(rp_state)
    /\ rp_pc' = NextStep("generate_diff")
    /\ PipelineOnly

\* add_interrupt("human_review"): the run is suspended at the review node,
\* either before the node executes or after it has
InterruptBeforeReview ==
    /\ rp_pc = "human_review"
    /\ rp_pc' = "interrupted_before_human_review"
    /\ UNCHANGED rp_state
    /\ PipelineOnly

HumanReviewStep ==
    /\ rp_pc \in {"human_review", "human_review_resumed"}
    /\ rp_state' = human_review_interrupt(rp_state)
    /\ rp_pc' = IF rp_pc = "human_review"
                THEN "interrupted_after_human_review"
                ELSE NextStep("human_review")
    /\ PipelineOnly

\* the caller resumes the suspended run from its checkpoint
ResumeAfterInterrupt ==
    /\ rp_pc \in {"interrupted_before_human_review", "interrupted_after_human_review"}
    /\ rp_pc' = IF rp_pc = "interrupted_before_human_review"
                THEN "human_review_resumed"
                ELSE NextStep("human_review")
    /\ UNCHANGED rp_state
    /\ PipelineOnly

ApplyChangesStep ==
    /\ rp_pc = "apply_changes"
    /\ rp_state' = apply_approved_changes(rp_state)
    /\ rp_pc' = NextStep("apply_changes")
    /\ PipelineOnly

FinalizeStep ==
    /\ rp_pc = "finalize"
    /\ rp_state' = finalize_processing(rp_state)
    /\ rp_pc' = NextStep("finalize")
    /\ PipelineOnly

InitPipeline ==
    /\ WorkflowIdle
    /\ tasks = << >>
    /\ GatewayIdle
    /\ ScoringIdle
    /\ parsed_llm_output = << >>
    /\ latest_workflow_run = NoRun
    /\ ui = NoRender
    /\ rp_state \in {initial_state(c, t) : c \in PipelineClients, t \in PipelineDocTypes}
    /\ rp_pc = "validate_security"

NextPipeline ==
    \/ ValidateSecurityStep
    \/ ExtractTextStep
    \/ ExtractRolesStep
    \/ QueryExistingStep
    \/ MatchRolesStep
    \/ GenerateDiffStep
    \/ InterruptBeforeReview
    \/ HumanReviewStep
    \/ ResumeAfterInterrupt
    \/ ApplyChangesStep
    \/ FinalizeStep

SpecPipeline == InitPipeline /\ [][NextPipeline]_vars

\* C38: in the nine-step workflow the steps run in the fixed order
\* validate_security, extract_text, extract_roles, query_existing, match_roles,
\* generate_diff, human_review, apply_changes, finalize: the step to run next
\* always follows the current one and completed_steps keeps that order; and
\* after a complete run without exceptions completed_steps lists all nine
\* steps in that order.
C38_NineStepsCompletedInOrder ==
    LET done == rp_state.completed_steps
    IN  /\ \A i, j \in DOMAIN done : i < j => StepIndex(done[i]) < StepIndex(done[j])
        /\ rp_pc \in {"END"} \cup {NineSteps[i] : i \in DOMAIN NineSteps}
               => rp_pc = NextStep(rp_state.current_step)
        /\ (rp_pc = "END" /\ rp_state.error_log = << >>) => done = NineSteps

\* ---------------------------------------------------------------------------
\* run() to its return: the graph runner executes the node that is due
\* ---------------------------------------------------------------------------

\* a run on which graph.ainvoke keeps executing the node that is due until
\* the graph reaches END (every awaited tool call answers)
NextLive ==
    \/ \E input_data \in FreshInputs : Run(input_data) /\ UNCHANGED uivars
    \/ Graph(MaxRolesRerun, MaxExistingRerun)

\* graph.ainvoke is awaited to its end: while a node (or the branch after the
\* review) is due, the runner executes it and the position moves on.  Every
\* step of Graph changes pc and no other step of NextLive is possible while a
\* node is due, so this is weak fairness of the steps of Graph
GraphAdvances ==
    /\ pc \in GraphNodes \cup {"decide_after_review"}
    /\ pc' \in GraphNodes \cup {"decide_after_review", "done", "raised"}

SpecLive == Init /\ [][NextLive]_vars /\ WF_pc(GraphAdvances)

\* the nodes in the order of the graph's edges, through save_data and past it
StepsWithSave == <<"start", "classify_document", "extract_information", "match_roles",
                   "generate_diff", "human_review", "save_data", "end_workflow">>
StepsWithoutSave == SelectSeq(StepsWithSave, LAMBDA node : node # "save_data")

IsNodeEntry(e) == e.node # "decide_after_review"
\* the nodes this run has executed so far, in order
ExecutedSteps ==
    LET entries == SelectSeq(trace, IsNodeEntry)
    IN  [i \in DOMAIN entries |-> entries[i].node]

\* the post-review branch of this run chose save_data
BranchChoseSave ==
    \E i \in DOMAIN trace : trace[i].node = "decide_after_review" /\ trace[i].route = "save_data"

\* C39: every run with a non-empty source path terminates: each workflow
\* step executes at most once, strictly sequentially, in the order start,
\* classify, extract, match, diff, review, then save only when the
\* post-review branch chose it, then end, after which run returns.
C39_RunTerminatesStepsOnceInOrder ==
    /\ [](/\ IsPrefix(ExecutedSteps, StepsWithSave) \/ IsPrefix(ExecutedSteps, StepsWithoutSave)
          /\ Ran("save_data") => BranchChoseSave
          /\ (BranchChoseSave /\ Ran("end_workflow")) => Ran("save_data")
          /\ (pc = "done" /\ ~PathMissing(input.original_file_path))
                 => ExecutedSteps \in {StepsWithSave, StepsWithoutSave}
          /\ pc # "raised")
    /\ (pc = "start") ~> (pc = "done")

C39_Witness ==
    /\ pc = "done"
    /\ ~PathMissing(input.original_file_path)
    /\ ExecutedSteps = StepsWithSave
    /\ BranchChoseSave

====
